---- MODULE Spec2Model ----
(***************************************************************************)
(* Task lifecycle of the pipeline runner of tangxusc/ar.                   *)
(*                                                                         *)
(* One task (one run directory) is modelled: Runner.Run creates it and     *)
(* iterates the steps, Runner.Resume re-reads pipeline.json and iterates   *)
(* from the first step that is not success, stopPipelineTask reads the     *)
(* record, sweeps the containers of running steps and writes the record    *)
(* back.  The three are separate OS processes (or goroutines), so each is  *)
(* cut into atomic steps at its file-system and container-runtime calls.   *)
(***************************************************************************)
EXTENDS Naturals, Sequences, FiniteSets

\* ------------------------------------------------------------ bounds
\* steps of the pipeline template
NumSteps == 2
\* calls of Resume, of stop and of a context's cancel function, together
MaxCalls == 2
\* steps of a template handed to TopoOrder by itself
MaxTplSteps == 2
\* characters of a pipeline name
MaxNameLen == 2
\* characters of a task id
MaxIdLen == 3
\* calls of runOneShotContainer at work in one host process
NumCallers == 3
\* entries of a tar stream
MaxEntries == 2
\* pieces (text and {{tokens}}) of a rendered string
MaxPieces == 3
\* characters of a raw image name
MaxRawLen == 3
\* bytes of an archive file
MaxBytes == 3
\* child archives that the self-install container leaves behind
MaxChildren == 2

\* ------------------------------------------------------------ constants
StatusPending == "pending"
StatusRunning == "running"
StatusSuccess == "success"
StatusFailed == "failed"
StatusCancelled == "cancelled"

Procs == {"run", "resume"}
StepIdx == 1 .. NumSteps

NameOf(k) == <<"a", "b", "c", "d">>[k]

\* The template file: a chain a -> b -> ..., stored last step first, so that
\* the execution order differs from the order of the file.
Template ==
    [k \in StepIdx |->
        LET s == NumSteps + 1 - k IN
        [name |-> NameOf(s),
         image |-> "img",
         args |-> <<"sh", NameOf(s)>>,
         env |-> <<"K=v">>,
         nodes |-> IF s < NumSteps THEN <<NameOf(s + 1)>> ELSE <<>>]]

\* A template file that is one ring: every step names the next one, the
\* last one the first.
TemplateRing ==
    [k \in StepIdx |->
        [name |-> NameOf(k),
         image |-> "img",
         args |-> <<"sh", NameOf(k)>>,
         env |-> <<"K=v">>,
         nodes |-> <<NameOf((k % NumSteps) + 1)>>]]

\* A template file with a step z that names itself, followed by the chain
\* a -> b -> ... whose last step names x, which is no step of the file.
TemplateLoopAndDangling ==
    [k \in StepIdx |->
        IF k = 1
        THEN [name |-> "z", image |-> "img", args |-> <<"sh", "z">>, env |-> <<"K=v">>,
              nodes |-> <<"z">>]
        ELSE [name |-> NameOf(k - 1),
              image |-> "img",
              args |-> <<"sh", NameOf(k - 1)>>,
              env |-> <<"K=v">>,
              nodes |-> <<IF k < NumSteps THEN NameOf(k) ELSE "x">>]]

\* ------------------------------------------------------------ TopoOrder
ZeroStep == [name |-> "", image |-> "", args |-> <<>>, env |-> <<>>, nodes |-> <<>>]
TopoError == [err |-> TRUE, order |-> <<>>]

RECURSIVE SeqSum(_)
SeqSum(s) == IF s = <<>> THEN 0 ELSE Head(s) + SeqSum(Tail(s))

CountIn(nodes, n) == Cardinality({j \in DOMAIN nodes : nodes[j] = n})

\* nameToStep: the last step of a name wins; a name no step has maps to the
\* zero value.
NameToStep(steps, n) ==
    LET ks == {k \in DOMAIN steps : steps[k].name = n} IN
    IF ks = {} THEN ZeroStep
    ELSE steps[CHOOSE k \in ks : \A j \in ks : j <= k]

InDegreeKeys(steps) ==
    {steps[k].name : k \in DOMAIN steps}
        \cup UNION {{steps[k].nodes[j] : j \in DOMAIN steps[k].nodes} : k \in DOMAIN steps}

InDegree(steps) ==
    [n \in InDegreeKeys(steps) |->
        SeqSum([k \in DOMAIN steps |-> CountIn(steps[k].nodes, n)])]

\* A successor is enqueued whenever its in-degree is decremented.
RECURSIVE RelaxEager(_, _, _)
RelaxEager(nodes, inDeg, queue) ==
    IF nodes = <<>> THEN [inDeg |-> inDeg, queue |-> queue]
    ELSE LET next == Head(nodes)
             d == inDeg[next]
         IN  IF d = 0
             THEN RelaxEager(Tail(nodes), inDeg, queue)
             ELSE RelaxEager(Tail(nodes), [inDeg EXCEPT ![next] = d - 1],
                             Append(queue, next))

\* One pass over the successors of a dequeued step.
RECURSIVE Relax(_, _, _)
Relax(nodes, inDeg, queue) ==
    IF nodes = <<>> THEN [inDeg |-> inDeg, queue |-> queue]
    ELSE LET next == Head(nodes)
             d == inDeg[next]
         IN  IF d = 0
             THEN Relax(Tail(nodes), inDeg, queue)   \* int goes negative: never 0 again
             ELSE Relax(Tail(nodes), [inDeg EXCEPT ![next] = d - 1],
                        IF d = 1 THEN Append(queue, next) ELSE queue)

RECURSIVE Kahn(_, _, _, _)
Kahn(steps, queue, inDeg, order) ==
    IF queue = <<>> THEN order
    ELSE LET st == NameToStep(steps, Head(queue))
             r == Relax(st.nodes, inDeg, Tail(queue))
         IN  Kahn(steps, r.queue, r.inDeg, Append(order, st))

Perms(S) ==
    {q \in [1 .. Cardinality(S) -> S] : \A i, j \in DOMAIN q : i # j => q[i] # q[j]}

\* The set of results TopoOrder can return: one per iteration order of the
\* inDegree map when the queue is seeded.
TopoOrder(steps) ==
    LET inDeg == InDegree(steps)
        seeds == {n \in DOMAIN inDeg : inDeg[n] = 0}
    IN  {LET order == Kahn(steps, q, inDeg, <<>>)
         IN  IF Len(order) # Len(steps) THEN TopoError
             ELSE [err |-> FALSE, order |-> order] : q \in Perms(seeds)}

\* ------------------------------------------------------------ record
\* The record is built without the initial status.
BuildRunDataNoStatus(orderedSteps) ==
    [k \in DOMAIN orderedSteps |->
        [name |-> orderedSteps[k].name,
         image |-> orderedSteps[k].image,
         status |-> "",
         args |-> orderedSteps[k].args,
         env |-> orderedSteps[k].env]]

BuildRunData(orderedSteps) ==
    [k \in DOMAIN orderedSteps |->
        [name |-> orderedSteps[k].name,
         image |-> orderedSteps[k].image,
         status |-> StatusPending,
         args |-> orderedSteps[k].args,
         env |-> orderedSteps[k].env]]

\* What pipeline.json holds: no file yet, or a record.
NoFile == [kind |-> "none", steps |-> <<>>]
File(rec) == [kind |-> "record", steps |-> rec]
IsRecord(d) == d.kind = "record"

\* A terminal status is set on a copy of the step, not in the record.
SetStatusOnCopy(data, i, st) ==
    IF st = StatusRunning THEN [data EXCEPT ![i].status = st] ELSE data

\* The status failed is not set on a step that is running.
SetStatusNotFailed(data, i, st) ==
    IF st = StatusFailed /\ data[i].status = StatusRunning
    THEN data
    ELSE [data EXCEPT ![i].status = st]

\* step.Status = st, step pointing into the record.
SetStatus(data, i, st) == [data EXCEPT ![i].status = st]

\* A task that is not complete is run again from its first step.
StartIndexRestart(data) ==
    IF \A k \in DOMAIN data : data[k].status = StatusSuccess THEN 0 ELSE 1

\* startIndex starts at the first step instead of at -1.
StartIndexFromZero(data) ==
    LET ks == {k \in DOMAIN data : data[k].status # StatusSuccess} IN
    IF ks = {} THEN 1 ELSE CHOOSE k \in ks : \A j \in ks : k <= j

\* Resume starts at the last step that is not success.
StartIndexLast(data) ==
    LET ks == {k \in DOMAIN data : data[k].status # StatusSuccess} IN
    IF ks = {} THEN 0 ELSE CHOOSE k \in ks : \A j \in ks : j <= k

\* Resume: index of the first step that is not success, 0 when there is none
\* (startIndex = -1 in the source).
StartIndex(data) ==
    LET ks == {k \in DOMAIN data : data[k].status # StatusSuccess} IN
    IF ks = {} THEN 0 ELSE CHOOSE k \in ks : \A j \in ks : k <= j

\* ------------------------------------------------------------ state
VARIABLES
    template,    \* the steps of the template file LoadTemplate returns
    disk,        \* content of <runDir>/pipeline.json
    pc,          \* position of Run and of Resume
    data,        \* runData of Run and of Resume (in memory)
    idx,         \* loop index i of Run and of Resume (1-based)
    result,      \* RunStepResult of the current step: "none", "ok" or the error
    ret,         \* what Run / Resume returned
    proc,        \* the init process started by Run / Resume: none, running, exit0, exitN
    ctx,         \* the context passed to Run / Resume is cancelled
    ctr,         \* runtime root: who created the state directory of step i's container id
    nResume,     \* calls of Resume so far
    nCancel,     \* calls of a cancel function so far
    stopPc,      \* position of stopPipelineTask
    stopData,    \* its runData
    stopIdx,     \* its loop index
    stopRet,     \* what it returned
    stopTarget,  \* the container the sweeper has loaded and signalled
    nStop,       \* calls of stop so far
    \* a call of a function of the program by itself
    arg,         \* the function and its arguments
    val,         \* what it returned
    \* a call of WritePipelineJSON with a reader at work
    file,        \* the bytes of pipeline.json
    wr,          \* the position of os.WriteFile, its data and its offset
    rd,          \* what ReadPipelineJSON returned
    \* calls of runOneShotContainer in one host process
    cwd,         \* the working directory of the process
    wd,          \* per call: its position and its oldWD
    \* history
    wrote,       \* the writers that have attempted a write of pipeline.json
    wfail,       \* the writers a write of which has failed (in their last invocation)
    hist,        \* per step, the statuses persisted while Run is the only writer
    halted,      \* per step: persisted as failed/cancelled and Resume not called since
    succeeded,   \* the steps that have been persisted as success
    started,     \* per invocation, the steps whose container it has started
    reaped,      \* per invocation, the steps whose container it has waited on
    termOk,      \* per invocation, the steps whose terminal status it has persisted
    readRec,     \* the record the invocation started from
    stopRead,    \* the record stop has read, while stop is at work
    stopSaw,     \* the step the last stop has read as running (0: none)
    cancelAt     \* per invocation, the current step if its init process was running
                 \* when the context was cancelled (0 if not)

machine == <<disk, pc, data, idx, result, ret, proc, ctx, ctr, nResume, nCancel,
             stopPc, stopData, stopIdx, stopRet, stopTarget, nStop>>
history == <<wrote, wfail, hist, halted, succeeded, started, reaped, termOk, readRec, stopRead,
             stopSaw, cancelAt>>
fixed == <<template, arg, val, file, wr, rd, cwd, wd>>
vars == <<machine, history, fixed>>

Calls == nResume + nStop + nCancel

NoRet == [kind |-> "none", step |-> ""]
OkRet == [kind |-> "ok", step |-> ""]
ErrRet(kind) == [kind |-> kind, step |-> ""]
StepErr(name) == [kind |-> "step", step |-> name]

\* No function is called by itself.
NoCall == [fn |-> "none"]

\* A host on which nothing has run yet.
Fresh ==
    /\ disk = NoFile
    /\ pc = [p \in Procs |-> "init"]
    /\ data = [p \in Procs |-> <<>>]
    /\ idx = [p \in Procs |-> 0]
    /\ result = [p \in Procs |-> "none"]
    /\ ret = [p \in Procs |-> NoRet]
    /\ proc = [p \in Procs |-> "none"]
    /\ ctx = [p \in Procs |-> FALSE]
    /\ ctr = [i \in StepIdx |-> "absent"]
    /\ nResume = 0
    /\ nCancel = 0
    /\ stopPc = "idle"
    /\ stopData = <<>>
    /\ stopIdx = 0
    /\ stopRet = NoRet
    /\ stopTarget = "none"
    /\ nStop = 0
    /\ wrote = {}
    /\ wfail = {}
    /\ hist = [i \in StepIdx |-> <<>>]
    /\ halted = [i \in StepIdx |-> FALSE]
    /\ succeeded = {}
    /\ started = [p \in Procs |-> {}]
    /\ reaped = [p \in Procs |-> {}]
    /\ termOk = [p \in Procs |-> {}]
    /\ readRec = [p \in Procs |-> <<>>]
    /\ stopRead = <<>>
    /\ stopSaw = 0
    /\ cancelAt = [p \in Procs |-> 0]

\* No call of WritePipelineJSON is followed byte by byte.
NoIO == file = <<>> /\ wr = NoCall /\ rd = NoCall

\* The directory the host process was started in, and no call of
\* runOneShotContainer that is followed through its changes of directory.
HostDir == "host"
Callers == 1 .. NumCallers
\* the bundle directory of call c
BundleDir(c) == <<"bundle1", "bundle2", "bundle3", "bundle4", "bundle5">>[c]
NoChdir == cwd = HostDir /\ wd = [c \in Callers |-> [pc |-> "none", oldWD |-> ""]]

Init ==
    /\ Fresh
    /\ template = Template
    /\ arg = NoCall
    /\ val = NoCall
    /\ NoIO
    /\ NoChdir

\* ------------------------------------------------------------ pipeline.json
\* A write succeeds, or fails (os.WriteFile cannot open the file) and leaves
\* the old content.
WriteOutcomes == {"ok", "fail"}

Written(old, rec, w) == IF w = "ok" THEN File(rec) ELSE old

Last(s) == s[Len(s)]

StatusOnDisk(i) == IF IsRecord(disk) THEN disk.steps[i].status ELSE "none"

HistAfter(who, rec) ==
    IF who # "run" \/ wrote \ {"run"} # {}
    THEN [i \in StepIdx |-> <<>>]
    ELSE [i \in StepIdx |->
            IF hist[i] # <<>> /\ Last(hist[i]) = rec[i].status THEN hist[i]
            ELSE Append(hist[i], rec[i].status)]

HaltedAfter(rec) ==
    [i \in StepIdx |->
        \/ halted[i]
        \/ /\ rec[i].status \in {StatusFailed, StatusCancelled}
           /\ StatusOnDisk(i) # rec[i].status]

\* WritePipelineJSON(runDir, rec) by `who` with outcome w.
WritePipelineJSON(who, rec, w) ==
    /\ disk' = Written(disk, rec, w)
    /\ wrote' = wrote \cup {who}
    /\ wfail' = IF w = "ok" THEN wfail ELSE wfail \cup {who}
    /\ hist' = IF w = "ok" THEN HistAfter(who, rec) ELSE hist
    /\ halted' = IF w = "ok" THEN HaltedAfter(rec) ELSE halted
    /\ succeeded' = IF w = "ok"
                    THEN succeeded \cup {i \in DOMAIN rec : rec[i].status = StatusSuccess}
                    ELSE succeeded

NoWrite == UNCHANGED <<disk, wrote, wfail, hist, halted, succeeded>>

\* ------------------------------------------------------------ the step loop
\* The loop bodies of Run (run_pipeline.go 62-93) and of Resume (124-155) are
\* the same code; p is the invocation that executes it.

\* The invocation returns r: its frame (runData, i, ctx) is gone.
Return(p, r) ==
    /\ pc' = [pc EXCEPT ![p] = "done"]
    /\ ret' = [ret EXCEPT ![p] = r]
    /\ data' = [data EXCEPT ![p] = <<>>]
    /\ idx' = [idx EXCEPT ![p] = 0]
    /\ ctx' = [ctx EXCEPT ![p] = FALSE]
    /\ cancelAt' = [cancelAt EXCEPT ![p] = 0]
    /\ started' = [started EXCEPT ![p] = {}]
    /\ reaped' = [reaped EXCEPT ![p] = {}]
    /\ termOk' = [termOk EXCEPT ![p] = {}]
    /\ readRec' = [readRec EXCEPT ![p] = <<>>]

\* The invocation goes on at `at` with runData d and index i.
Goto(p, at, d, i) ==
    /\ pc' = [pc EXCEPT ![p] = at]
    /\ data' = [data EXCEPT ![p] = d]
    /\ idx' = [idx EXCEPT ![p] = i]
    /\ cancelAt' = [cancelAt EXCEPT ![p] = 0]
    /\ UNCHANGED <<ret, ctx, readRec>>

\* mkdir nodeDir; step.Status = running; WritePipelineJSON.
LoopMark(p) ==
    /\ pc[p] = "mark"
    /\ \E o \in {"mkdir_fail"} \cup WriteOutcomes :
          LET d == SetStatus(data[p], idx[p], StatusRunning) IN
          /\ IF o = "mkdir_fail" THEN NoWrite ELSE WritePipelineJSON(p, d, o)
          /\ IF o = "ok"
             THEN Goto(p, "start", d, idx[p]) /\ UNCHANGED <<started, reaped, termOk>>
             ELSE Return(p, ErrRet(IF o = "mkdir_fail" THEN "mkdir" ELSE "write"))
    /\ UNCHANGED <<result, proc, ctr, nResume, nCancel>>
    /\ UNCHANGED <<stopPc, stopData, stopIdx, stopRet, stopTarget, nStop, stopRead, stopSaw>>
    /\ UNCHANGED fixed

\* The return paths of runOneShotContainer on which the deferred Destroy is
\* not registered until after the select.
DestroysAfterWait(path) == path \in {"ok", "exit", "cancel"}

\* The return paths of RunStep that run container.Destroy(): the call is
\* deferred right after libcontainer.Create has succeeded, so all but the
\* driver errors up to and including Create. The paths are "driver", "start"
\* (toLibcontainerProcess rejects terminal=true, or container.Run fails), "ok"
\* (exit code 0), "exit" (another exit code or an error of Wait) and "cancel".
Destroys(path) == path # "driver"

\* RunStep up to the start of the init process. A driver error: the image
\* cannot be opened (always when the step names none) or unpacked, the spec
\* cannot be written, or libcontainer.Create fails (always when the id
\* already has a state directory). With the container created, the process
\* spec is rejected or container.Run(process) fails, and the function returns
\* through the deferred Destroy. Otherwise the container runs.
LoopStart(p) ==
    /\ pc[p] = "start"
    /\ \E o \in {"fail", "terminal", "start", "ok"} :
          IF o = "fail" \/ data[p][idx[p]].image = "" \/ ctr[idx[p]] # "absent"
          THEN /\ result' = [result EXCEPT ![p] = "driver"]
               /\ pc' = [pc EXCEPT ![p] = "record"]
               /\ UNCHANGED <<proc, ctr, started>>
          ELSE IF o \in {"terminal", "start"}
          THEN /\ result' = [result EXCEPT ![p] = "start"]
               /\ ctr' = [ctr EXCEPT ![idx[p]] = IF Destroys("start") THEN "absent" ELSE p]
               /\ pc' = [pc EXCEPT ![p] = "record"]
               /\ UNCHANGED <<proc, started>>
          ELSE /\ ctr' = [ctr EXCEPT ![idx[p]] = p]
               /\ proc' = [proc EXCEPT ![p] = "running"]
               /\ started' = [started EXCEPT ![p] = @ \cup {idx[p]}]
               /\ pc' = [pc EXCEPT ![p] = "wait"]
               /\ result' = result
    /\ NoWrite
    /\ UNCHANGED <<data, idx, ret, ctx, cancelAt, nResume, nCancel>>
    /\ UNCHANGED <<stopPc, stopData, stopIdx, stopRet, stopTarget, nStop>>
    /\ UNCHANGED <<reaped, termOk, readRec, stopRead, stopSaw>>
    /\ UNCHANGED fixed

\* The container's init process exits by itself, with code 0 or not (a process
\* that was sent SIGTERM may do either).
ProcExit(p) ==
    /\ proc[p] = "running"
    /\ \E code \in {"exit0", "exitN"} : proc' = [proc EXCEPT ![p] = code]
    /\ NoWrite
    /\ UNCHANGED <<pc, data, idx, result, ret, ctx, cancelAt, ctr, nResume, nCancel>>
    /\ UNCHANGED <<stopPc, stopData, stopIdx, stopRet, stopTarget, nStop>>
    /\ UNCHANGED <<started, reaped, termOk, readRec, stopRead, stopSaw>>
    /\ UNCHANGED fixed

\* The context of the invocation is cancelled by its host. The select of
\* runOneShotContainer is the only reader of the context, so the cancellation
\* is taken at the point where it becomes observable.
CtxCancel(p) ==
    /\ pc[p] = "wait"
    /\ ~ctx[p]
    /\ Calls < MaxCalls
    /\ nCancel' = nCancel + 1
    /\ ctx' = [ctx EXCEPT ![p] = TRUE]
    /\ cancelAt' = [cancelAt EXCEPT ![p] = IF proc[p] = "running" THEN idx[p] ELSE 0]
    /\ NoWrite
    /\ UNCHANGED <<pc, data, idx, result, ret, proc, ctr, nResume>>
    /\ UNCHANGED <<stopPc, stopData, stopIdx, stopRet, stopTarget, nStop>>
    /\ UNCHANGED <<started, reaped, termOk, readRec, stopRead, stopSaw>>
    /\ UNCHANGED fixed

\* What both branches of the select end with: the process is reaped, the
\* deferred Destroy removes the state directory, RunStep returns.
Reaped(p, r) ==
    /\ result' = [result EXCEPT ![p] = r]
    /\ proc' = [proc EXCEPT ![p] = "none"]
    /\ ctr' = [ctr EXCEPT ![idx[p]] = IF Destroys(r) THEN "absent" ELSE @]
    /\ reaped' = [reaped EXCEPT ![p] = @ \cup {idx[p]}]
    /\ stopTarget' = IF stopTarget = p THEN "gone" ELSE stopTarget
    /\ pc' = [pc EXCEPT ![p] = "record"]

\* runOneShotContainer's select: the wait result, or ctx.Done (SIGKILL, then
\* the wait result). With both ready Go picks either.
LoopWait(p) ==
    /\ pc[p] = "wait"
    /\ \/ /\ proc[p] \in {"exit0", "exitN"}
          /\ Reaped(p, IF proc[p] = "exit0" THEN "ok" ELSE "exit")
       \/ /\ ctx[p]
          /\ Reaped(p, "cancel")
    /\ NoWrite
    /\ UNCHANGED <<data, idx, ret, ctx, cancelAt, nResume, nCancel>>
    /\ UNCHANGED <<stopPc, stopData, stopIdx, stopRet, nStop>>
    /\ UNCHANGED <<started, termOk, readRec, stopRead, stopSaw>>
    /\ UNCHANGED fixed

\* A step that fails is not the last word of a runner that goes on.
StepOutcomeGoesOn(good, w, last) ==
    IF ~good THEN (IF last THEN "failed" ELSE "next")
    ELSE IF w # "ok" THEN "writeerr"
    ELSE IF last THEN "done" ELSE "next"

\* The write of a terminal status is not checked.
StepOutcomeUnchecked(good, w, last) ==
    IF ~good THEN "failed"
    ELSE IF last THEN "done" ELSE "next"

\* How an iteration ends, given RunStep's result (good: no error, exit code
\* 0), the outcome w of the write that follows and whether the step is the
\* last: return the step's error, return the write's error, go on, or return
\* nil after the loop.
StepOutcome(good, w, last) ==
    IF ~good THEN "failed"
    ELSE IF w # "ok" THEN "writeerr"
    ELSE IF last THEN "done" ELSE "next"

\* After RunStep: failed + write (error ignored) + return, or success + write
\* (error returned) + next step.
LoopRecord(p) ==
    /\ pc[p] = "record"
    /\ \E w \in WriteOutcomes :
          LET i == idx[p]
              good == result[p] = "ok"
              d == SetStatus(data[p], i, IF good THEN StatusSuccess ELSE StatusFailed)
          IN  /\ WritePipelineJSON(p, d, w)
              /\ LET o == StepOutcome(good, w, i = Len(d)) IN
                 IF o = "failed" THEN Return(p, StepErr(d[i].name))
                 ELSE IF o = "writeerr" THEN Return(p, ErrRet("write"))
                 ELSE IF o = "next"
                 THEN /\ Goto(p, "mark", d, i + 1)
                      /\ termOk' = [termOk EXCEPT ![p] = IF w = "ok" THEN @ \cup {i} ELSE @]
                      /\ UNCHANGED <<started, reaped>>
                 ELSE Return(p, OkRet)
    /\ result' = [result EXCEPT ![p] = "none"]
    /\ UNCHANGED <<proc, ctr, nResume, nCancel>>
    /\ UNCHANGED <<stopPc, stopData, stopIdx, stopRet, stopTarget, nStop, stopRead, stopSaw>>
    /\ UNCHANGED fixed

\* ------------------------------------------------------------ Run
\* Run up to the loop: nodes, LoadTemplate, TopoOrder, MkdirAll(runDir),
\* BuildRunData, the first WritePipelineJSON.
RunBegin ==
    /\ pc["run"] = "init"
    /\ \E ordered \in TopoOrder(template),
          o \in {"nodes_empty", "template_missing", "mkdir_fail"} \cup WriteOutcomes :
          IF o \notin WriteOutcomes \/ ordered.err
          THEN /\ Return("run", ErrRet(IF o = "nodes_empty" THEN "nodes"
                                       ELSE IF o = "template_missing" THEN "template"
                                       ELSE IF ordered.err THEN "topo"
                                       ELSE "mkdir"))
               /\ NoWrite
          ELSE LET d == BuildRunData(ordered.order) IN
               /\ WritePipelineJSON("run", d, o)
               /\ IF o = "ok"
                  THEN /\ pc' = [pc EXCEPT !["run"] = "mark"]
                       /\ data' = [data EXCEPT !["run"] = d]
                       /\ idx' = [idx EXCEPT !["run"] = 1]
                       /\ readRec' = [readRec EXCEPT !["run"] = d]
                       /\ UNCHANGED <<ret, ctx, cancelAt, started, reaped, termOk>>
                  ELSE Return("run", ErrRet("write"))
    /\ UNCHANGED <<result, proc, ctr, nResume, nCancel>>
    /\ UNCHANGED <<stopPc, stopData, stopIdx, stopRet, stopTarget, nStop, stopRead, stopSaw>>
    /\ UNCHANGED fixed

RunMark == LoopMark("run")
RunStart == LoopStart("run")
RunWait == LoopWait("run")
RunRecord == LoopRecord("run")

\* ------------------------------------------------------------ Resume
\* Resume up to the loop: FindRunDirByTaskID, ReadPipelineJSON, startIndex.
\* Each call is a new invocation with a fresh context.
ResumeBegin ==
    /\ pc["resume"] \in {"init", "done"}
    /\ Calls < MaxCalls
    /\ nResume' = nResume + 1
    /\ IF ~IsRecord(disk)
       THEN Return("resume", ErrRet("notfound"))
       ELSE LET s == StartIndex(disk.steps) IN
            IF s = 0
            THEN Return("resume", OkRet)
            ELSE /\ pc' = [pc EXCEPT !["resume"] = "mark"]
                 /\ data' = [data EXCEPT !["resume"] = disk.steps]
                 /\ idx' = [idx EXCEPT !["resume"] = s]
                 /\ readRec' = [readRec EXCEPT !["resume"] = disk.steps]
                 /\ ret' = [ret EXCEPT !["resume"] = NoRet]
                 /\ UNCHANGED <<ctx, cancelAt, started, reaped, termOk>>
    /\ halted' = [i \in StepIdx |-> FALSE]
    /\ wfail' = wfail \ {"resume"}
    /\ UNCHANGED <<disk, wrote, hist, succeeded>>
    /\ UNCHANGED <<result, proc, ctr, nCancel>>
    /\ UNCHANGED <<stopPc, stopData, stopIdx, stopRet, stopTarget, nStop, stopRead, stopSaw>>
    /\ UNCHANGED fixed

ResumeMark == LoopMark("resume")
ResumeStart == LoopStart("resume")
ResumeWait == LoopWait("resume")
ResumeRecord == LoopRecord("resume")

\* ------------------------------------------------------------ stop
\* The container id of step i is ar_<pipeline dir>_<name>_<i>: the state
\* directory of step i. Its status is running while its init process lives.
CtrRunning(i) == ctr[i] \in Procs /\ proc[ctr[i]] = "running"

\* The first step of rec with status running (0: none).
RunningStep(rec) ==
    LET R == {i \in 1..Len(rec) : rec[i].status = StatusRunning} IN
    IF R = {} THEN 0 ELSE CHOOSE i \in R : \A j \in R : i <= j

\* Only what is running is cancelled.
StopMarkRunningOnly(st) ==
    IF st = StatusRunning THEN StatusCancelled ELSE st

\* The status stop gives a step it has handled.
StopMark(st) ==
    IF st \in {StatusRunning, StatusPending} THEN StatusCancelled ELSE st

\* The iterations of stop's loop from step i that touch nothing but runData:
\* up to the next running step, or to the end.
RECURSIVE StopSkip(_, _)
StopSkip(d, i) ==
    IF i > Len(d) \/ d[i].status = StatusRunning THEN [data |-> d, idx |-> i]
    ELSE StopSkip(SetStatus(d, i, StopMark(d[i].status)), i + 1)

\* stopPipelineTask up to the first running step: FindRunDirByTaskID,
\* ReadPipelineJSON, the loop.
StopBegin ==
    /\ stopPc \in {"idle", "done"}
    /\ Calls < MaxCalls
    /\ nStop' = nStop + 1
    /\ stopTarget' = "none"
    /\ IF ~IsRecord(disk)
       THEN /\ stopPc' = "done"
            /\ stopRet' = ErrRet("notfound")
            /\ stopData' = <<>>
            /\ stopIdx' = 0
            /\ stopRead' = <<>>
            /\ stopSaw' = 0
       ELSE LET s == StopSkip(disk.steps, 1) IN
            /\ stopPc' = "scan"
            /\ stopRet' = NoRet
            /\ stopData' = s.data
            /\ stopIdx' = s.idx
            /\ stopRead' = disk.steps
            /\ stopSaw' = RunningStep(disk.steps)
    /\ wfail' = wfail \ {"stop"}
    /\ UNCHANGED <<disk, wrote, hist, halted, succeeded>>
    /\ UNCHANGED <<pc, data, idx, result, ret, proc, ctx, cancelAt, ctr, nResume, nCancel>>
    /\ UNCHANGED <<started, reaped, termOk, readRec>>
    /\ UNCHANGED fixed

\* The step is handled: it becomes cancelled and the loop goes on.
StopNext(i) ==
    LET s == StopSkip(SetStatus(stopData, i, StopMark(stopData[i].status)), i + 1) IN
    /\ stopData' = s.data
    /\ stopIdx' = s.idx

\* The iteration for a running step: the sweeper up to its sleep. No state
\* directory of that id: nothing to do. A stopped container is destroyed. A
\* running one is sent SIGTERM.
StopStep ==
    /\ stopPc = "scan"
    /\ stopIdx <= Len(stopData)
    /\ LET i == stopIdx IN
       IF CtrRunning(i)
       THEN /\ stopTarget' = ctr[i]
            /\ stopPc' = "slept"
            /\ UNCHANGED <<stopData, stopIdx, ctr>>
       ELSE /\ ctr' = [ctr EXCEPT ![i] = "absent"]
            /\ StopNext(i)
            /\ UNCHANGED <<stopTarget, stopPc>>
    /\ NoWrite
    /\ UNCHANGED <<pc, data, idx, result, ret, proc, ctx, cancelAt, nResume, nCancel, stopRet, nStop>>
    /\ UNCHANGED <<started, reaped, termOk, readRec, stopRead, stopSaw>>
    /\ UNCHANGED fixed

\* The sweeper after its sleep: SIGKILL if the container is still running,
\* then Destroy, which fails while the killed process has not gone yet; back
\* in stop the step becomes cancelled.
StopKill ==
    /\ stopPc = "slept"
    /\ LET i == stopIdx
           q == stopTarget
       IN  /\ IF q \in Procs /\ proc[q] = "running"
              THEN /\ proc' = [proc EXCEPT ![q] = "exitN"]
                   /\ \E destroyed \in BOOLEAN :
                         ctr' = IF destroyed THEN [ctr EXCEPT ![i] = "absent"] ELSE ctr
              ELSE /\ ctr' = [ctr EXCEPT ![i] = "absent"]
                   /\ proc' = proc
           /\ StopNext(i)
    /\ stopPc' = "scan"
    /\ stopTarget' = "none"
    /\ NoWrite
    /\ UNCHANGED <<pc, data, idx, result, ret, ctx, cancelAt, nResume, nCancel, stopRet, nStop>>
    /\ UNCHANGED <<started, reaped, termOk, readRec, stopRead, stopSaw>>
    /\ UNCHANGED fixed

\* After the loop: WritePipelineJSON(runDir, runData) and return.
StopWrite ==
    /\ stopPc = "scan"
    /\ stopIdx > Len(stopData)
    /\ \E w \in WriteOutcomes :
          /\ WritePipelineJSON("stop", stopData, w)
          /\ stopRet' = IF w = "ok" THEN OkRet ELSE ErrRet("write")
    /\ stopPc' = "done"
    /\ stopData' = <<>>
    /\ stopIdx' = 0
    /\ UNCHANGED <<pc, data, idx, result, ret, proc, ctx, cancelAt, ctr, nResume, nCancel>>
    /\ stopRead' = <<>>
    /\ UNCHANGED <<stopTarget, nStop>>
    /\ UNCHANGED <<started, reaped, termOk, readRec, stopSaw>>
    /\ UNCHANGED fixed

\* ------------------------------------------------------------ functions
\* The functions of the program that are called by themselves, on inputs
\* drawn from bounded sets.

\* Step names of a template file, its successor lists (none, one, two names,
\* also the same name twice) and its steps.
TplNames == {"a", "b", "c"}
TplNodes ==
    {<<>>} \cup {<<m>> : m \in TplNames} \cup {<<m, n>> : m \in TplNames, n \in TplNames}
TplSteps ==
    {[name |-> n, image |-> "img", args |-> <<"sh", n>>, env |-> <<"K=v">>, nodes |-> ns] :
        n \in TplNames, ns \in TplNodes}
Templates == UNION {[1 .. k -> TplSteps] : k \in 0 .. MaxTplSteps}

\* ---- container ids
\* Strings are sequences of characters, paths are sequences of elements.
Letters == {"a", "b", "k", "p", "q", "r", "s", "t"}
Digits == {"0", "1", "2", "3", "4", "5", "6", "7", "8", "9"}

RECURSIVE TrimLeft(_, _)
TrimLeft(s, cutset) ==
    IF s # <<>> /\ Head(s) \in cutset THEN TrimLeft(Tail(s), cutset) ELSE s

RECURSIVE TrimRight(_, _)
TrimRight(s, cutset) ==
    IF s # <<>> /\ s[Len(s)] \in cutset
    THEN TrimRight(SubSeq(s, 1, Len(s) - 1), cutset)
    ELSE s

\* strings.Trim(s, cutset); strings.TrimSpace(s) is Trim(s, {" "}) here
Trim(s, cutset) == TrimRight(TrimLeft(s, cutset), cutset)

IsNameRune(r) == r \in Letters \cup Digits \cup {"_", "-", "."}

sanitizePipelineName(s) ==
    LET t == Trim(s, {" "})
    IN  IF t = <<>> THEN <<>> ELSE Trim(SelectSeq(t, IsNameRune), {".", "_", "-"})

\* The elements of a path string: the text between separators, without the
\* empty elements that filepath.Clean drops.
RECURSIVE SplitPath(_, _)
SplitPath(s, cur) ==
    IF s = <<>>
    THEN IF cur = <<>> THEN <<>> ELSE <<cur>>
    ELSE IF Head(s) = "/"
         THEN (IF cur = <<>> THEN <<>> ELSE <<cur>>) \o SplitPath(Tail(s), <<>>)
         ELSE SplitPath(Tail(s), Append(cur, Head(s)))

\* filepath.Join(dir, s)
Join(dir, s) == dir \o SplitPath(s, <<>>)
\* filepath.Dir and filepath.Base of a path of at least two elements
Dir(path) == SubSeq(path, 1, Len(path) - 1)
Base(path) == path[Len(path)]

arRoot == <<<<"v", "a", "r">>, <<"a", "r">>>>

RunDir(pipelineName, taskID) == Join(Join(arRoot, sanitizePipelineName(pipelineName)), taskID)

\* strconv.Itoa
RECURSIVE Itoa(_)
Itoa(n) ==
    LET d == <<"0", "1", "2", "3", "4", "5", "6", "7", "8", "9">>[(n % 10) + 1]
    IN  IF n < 10 THEN <<d>> ELSE Append(Itoa(n \div 10), d)

\* fmt.Sprintf("ar_%s_%s_%d", dirName, stepName, i+1), k being i+1
ContainerID(dirName, stepName, k) ==
    <<"a", "r", "_">> \o dirName \o <<"_">> \o stepName \o <<"_">> \o Itoa(k)

\* The run directories found for taskID among the run directories that hold
\* a pipeline.json: one for every directory of arRoot under which the file
\* exists.
FindRunDirByTaskID(runDirs, taskID) ==
    {Join(Append(arRoot, d[Len(arRoot) + 1]), taskID) : d \in runDirs} \cap runDirs

\* Task ids made by GenerateTaskID: hexadecimal digits.
HexChars == {"1", "f"}
GeneratedIDs == UNION {[1 .. n -> HexChars] : n \in 1 .. MaxIdLen}

NameChars == {"p", "_", ".", " ", "/"}
PipelineNames == UNION {[1 .. n -> NameChars] : n \in 0 .. MaxNameLen}
IdChars == {"1", "/"}
TaskIDs == UNION {[1 .. n -> IdChars] : n \in 0 .. MaxIdLen}
StepNames == {<<"a">>, <<"a", "_", "b">>}

ContainerIDInit ==
    /\ Fresh
    /\ template = Template
    /\ arg \in {[fn |-> "ContainerID", pipelineName |-> n, taskID |-> t, stepName |-> m, k |-> k] :
                  n \in PipelineNames, t \in TaskIDs, m \in StepNames, k \in StepIdx}
    /\ val = NoCall
    /\ NoIO
    /\ NoChdir

\* Run starts step k of a task, then Resume and stop compute the container id
\* of step k from the returned task id.
ContainerIDCall ==
    /\ arg.fn = "ContainerID"
    /\ val = NoCall
    /\ IF sanitizePipelineName(arg.pipelineName) = <<>>
       THEN val' = [err |-> TRUE]
       ELSE \E taskID \in (IF arg.taskID = <<>> THEN GeneratedIDs ELSE {arg.taskID}) :
              LET runDir == RunDir(arg.pipelineName, taskID)
                  runData == [taskID |-> taskID, pipelineName |-> arg.pipelineName]
              IN  \E found \in FindRunDirByTaskID({runDir}, taskID) :
                     val' = [err |-> FALSE,
                             taskID |-> taskID,
                             run |-> ContainerID(sanitizePipelineName(arg.pipelineName),
                                                 arg.stepName, arg.k),
                             resume |-> ContainerID(sanitizePipelineName(runData.pipelineName),
                                                    arg.stepName, arg.k),
                             stop |-> ContainerID(Base(Dir(found)), arg.stepName, arg.k)]
    /\ UNCHANGED <<machine, history, template, arg, file, wr, rd, cwd, wd>>

\* Two task ids made by GenerateTaskID for two calls of Run: they differ.
TaskIDPairs ==
    {p \in [1 .. 2 -> [1 .. 1 -> HexChars]] : p[1] # p[2]}

TasksInit ==
    /\ Fresh
    /\ template = Template
    /\ arg \in {[fn |-> "Tasks", pipelineNames |-> ns, taskIDs |-> ts] :
                  ns \in [1 .. 2 -> PipelineNames], ts \in TaskIDPairs}
    /\ val = NoCall
    /\ NoIO
    /\ NoChdir

\* The ids of the containers that Run(pipelineName, taskID) starts when every
\* step of the template succeeds: none when LoadTemplate rejects the name.
ContainerIDsOfRun(pipelineName, taskID) ==
    IF sanitizePipelineName(pipelineName) = <<>>
    THEN {}
    ELSE {ContainerID(sanitizePipelineName(pipelineName), <<NameOf(k)>>, k) : k \in StepIdx}

\* Two calls of Run in one host, each on its own goroutine.
TasksCall ==
    /\ arg.fn = "Tasks"
    /\ val = NoCall
    /\ val' = [runDirs |-> [t \in 1 .. 2 |-> RunDir(arg.pipelineNames[t], arg.taskIDs[t])],
               ids |-> [t \in 1 .. 2 |->
                          ContainerIDsOfRun(arg.pipelineNames[t], arg.taskIDs[t])]]
    /\ UNCHANGED <<machine, history, template, arg, file, wr, rd, cwd, wd>>

\* ---- pipeline.json byte by byte
\* json.MarshalIndent of a record, of which the statuses of the steps are
\* kept: an opening brace, one token per step, a closing brace.
Statuses == {StatusPending, StatusRunning, StatusSuccess, StatusFailed, StatusCancelled}
Encode(statuses) == <<"{">> \o statuses \o <<"}">>

\* json.Unmarshal: an error unless the bytes are one whole object.
Decode(bytes) ==
    IF /\ Len(bytes) >= 2
       /\ bytes[1] = "{"
       /\ bytes[Len(bytes)] = "}"
       /\ \A k \in 2 .. Len(bytes) - 1 : bytes[k] \in Statuses
    THEN [err |-> FALSE, steps |-> SubSeq(bytes, 2, Len(bytes) - 1)]
    ELSE [err |-> TRUE, steps |-> <<>>]

StatusLists == [StepIdx -> Statuses]

\* pipeline.json holds the record old, WritePipelineJSON is called with new.
WriteFileInit ==
    /\ Fresh
    /\ template = Template
    /\ arg \in {[fn |-> "WritePipelineJSON", old |-> o, new |-> n] :
                  o \in StatusLists, n \in StatusLists}
    /\ val = NoCall
    /\ file = Encode(arg.old)
    /\ wr = [pc |-> "open", data |-> Encode(arg.new), off |-> 0]
    /\ rd = NoCall
    /\ NoChdir

\* os.WriteFile: OpenFile(name, O_WRONLY|O_CREATE|O_TRUNC, perm)
WriteFileOpen ==
    /\ arg.fn = "WritePipelineJSON"
    /\ wr.pc = "open"
    /\ \/ /\ file' = <<>>
          /\ wr' = [wr EXCEPT !.pc = "write"]
          /\ UNCHANGED val
       \/ /\ val' = [err |-> TRUE]
          /\ wr' = [wr EXCEPT !.pc = "done"]
          /\ UNCHANGED file
    /\ UNCHANGED <<machine, history, template, arg, rd, cwd, wd>>

\* os.WriteFile: f.Write(data), one write(2) after the other until all bytes
\* are written or one fails.
WriteFileWrite ==
    /\ arg.fn = "WritePipelineJSON"
    /\ wr.pc = "write"
    /\ \/ \E n \in 1 .. Len(wr.data) - wr.off :
             /\ file' = file \o SubSeq(wr.data, wr.off + 1, wr.off + n)
             /\ wr' = [wr EXCEPT !.off = wr.off + n,
                                 !.pc = IF wr.off + n = Len(wr.data) THEN "close" ELSE "write"]
             /\ UNCHANGED val
       \/ /\ val' = [err |-> TRUE]
          /\ wr' = [wr EXCEPT !.pc = "done"]
          /\ UNCHANGED file
    /\ UNCHANGED <<machine, history, template, arg, rd, cwd, wd>>

\* os.WriteFile: f.Close(), and WritePipelineJSON returns nil
WriteFileClose ==
    /\ arg.fn = "WritePipelineJSON"
    /\ wr.pc = "close"
    /\ wr' = [wr EXCEPT !.pc = "done"]
    /\ val' = [err |-> FALSE]
    /\ UNCHANGED <<machine, history, template, arg, file, rd, cwd, wd>>

\* ReadPipelineJSON in another process or goroutine: os.ReadFile and
\* json.Unmarshal. at is where the writer was.
ReadPipelineJSON ==
    /\ arg.fn = "WritePipelineJSON"
    /\ rd = NoCall
    /\ rd' = [at |-> wr.pc, bytes |-> file, runData |-> Decode(file)]
    /\ UNCHANGED <<machine, history, template, arg, val, file, wr, cwd, wd>>

\* ---- the sweeper
\* A prefix test that every id passes.
HasPrefixAny(s, prefix) == TRUE

\* strings.HasPrefix(s, prefix)
HasPrefix(s, prefix) == Len(prefix) <= Len(s) /\ SubSeq(s, 1, Len(prefix)) = prefix

\* A sweeper that hands the error of os.ReadDir to its caller.
SweepErrOnList(fault) == fault = "list"

\* The error StopAndRemoveOCIContainers returns when the operations of the
\* class `fault` fail: every failure is logged and the function returns nil.
SweepErr(fault) == FALSE

\* What can fail during a sweep: nothing, os.ReadDir of the root,
\* libcontainer.Load, Status, Signal, Destroy.
Faults == {"none", "list", "load", "status", "signal", "destroy"}

\* The names the entries of the runtime root can have: the ids of containers
\* made by Run (pipeline p with the steps a and a_1, pipeline q with the step
\* a) and one made by something else.
EntryNames ==
    {ContainerID(<<"p">>, <<"a">>, 1),
     ContainerID(<<"p">>, <<"a", "_", "1">>, 2),
     ContainerID(<<"q">>, <<"a">>, 1),
     <<"x">>}

\* The runtime roots: for some of the names, whether the entry is a directory
\* and whether the container's process runs.
EntryKinds == [dir : BOOLEAN, status : {"running", "stopped"}]
Roots == UNION {[names -> EntryKinds] : names \in SUBSET EntryNames}

Prefixes ==
    {<<>>, <<" ">>, <<" ", "a", "r">>, <<"a", "r", "_">>, <<"r", "_">>,
     ContainerID(<<"p">>, <<"a">>, 1), ContainerID(<<"q">>, <<"a">>, 1)}

\* The containers the sweeper has loaded: the directories of the root whose
\* name has the prefix, unless the prefix is blank or listing or loading
\* fails.
Matched(root, prefix, fault) ==
    IF Trim(prefix, {" "}) = <<>> \/ fault \in {"list", "load"}
    THEN {}
    ELSE {id \in DOMAIN root : root[id].dir /\ HasPrefix(id, prefix)}

\* StopAndRemoveOCIContainers(root, prefix): the ids it has called Signal
\* with SIGTERM on, those it has called Signal with SIGKILL on (the ones it
\* found running again after the sleep), those it has called Destroy on, and
\* the error it returns.
Sweep(root, prefix, fault) ==
    LET matched == Matched(root, prefix, fault)
        termed == IF fault = "status"
                  THEN {}
                  ELSE {id \in matched : root[id].status = "running"}
    IN  {[err |-> SweepErr(fault), term |-> termed, kill |-> k, destroy |-> matched] :
            k \in SUBSET termed}

SweepInit ==
    /\ Fresh
    /\ template = Template
    /\ arg \in {[fn |-> "Sweep", root |-> r, prefix |-> x, fault |-> f] :
                  r \in Roots, x \in Prefixes, f \in Faults}
    /\ val = NoCall
    /\ NoIO
    /\ NoChdir

SweepCall ==
    /\ arg.fn = "Sweep"
    /\ val = NoCall
    /\ val' \in Sweep(arg.root, arg.prefix, arg.fault)
    /\ UNCHANGED <<machine, history, template, arg, file, wr, rd, cwd, wd>>

\* stopPipelineTask finds step k (named stepName) of a task of the pipeline
\* directory dirName in status running.
StopSweepInit ==
    /\ Fresh
    /\ template = Template
    /\ arg \in {[fn |-> "StopSweep", root |-> r, dirName |-> d, stepName |-> <<"a">>, k |-> 1,
                  fault |-> f] :
                  r \in Roots, d \in {<<"p">>, <<"q">>}, f \in Faults}
    /\ val = NoCall
    /\ NoIO
    /\ NoChdir

\* case StatusRunning: the container id, and the sweep with it as the prefix
StopSweepCall ==
    /\ arg.fn = "StopSweep"
    /\ val = NoCall
    /\ LET containerID == ContainerID(arg.dirName, arg.stepName, arg.k) IN
       \E r \in Sweep(arg.root, containerID, arg.fault) :
          val' = [containerID |-> containerID, term |-> r.term, kill |-> r.kill,
                  destroy |-> r.destroy]
    /\ UNCHANGED <<machine, history, template, arg, file, wr, rd, cwd, wd>>

\* The body of the sweeper's loop for one matched container: the calls it
\* makes on the container, in order, given what Status returns (a status
\* and whether with an error) before and after the SIGTERM and whether the
\* signals fail.  Destroy's error is only logged.
ContainerStatuses == {"created", "running", "paused", "stopped", "none"}

SignalsFirst(status) == status \in {"running", "created"}

NeedsKillAlways(statusAfter, statusAfterErr) == TRUE
NeedsKill(statusAfter, statusAfterErr) == ~statusAfterErr /\ statusAfter = "running"

SweepContainer(c) ==
    <<"Status">>
    \o (IF SignalsFirst(c.status)
        THEN <<"SIGTERM">>
             \o (IF c.termErr THEN <<>> ELSE <<"Sleep">>)
             \o <<"Status">>
             \o (IF NeedsKill(c.statusAfter, c.statusAfterErr) THEN <<"SIGKILL">> ELSE <<>>)
        ELSE <<>>)
    \o <<"Destroy">>

SweepContainerInit ==
    /\ Fresh
    /\ template = Template
    /\ arg \in [fn : {"SweepContainer"},
                status : ContainerStatuses, statusErr : BOOLEAN, termErr : BOOLEAN,
                statusAfter : ContainerStatuses, statusAfterErr : BOOLEAN,
                killErr : BOOLEAN, destroyErr : BOOLEAN]
    /\ val = NoCall
    /\ NoIO
    /\ NoChdir

SweepContainerCall ==
    /\ arg.fn = "SweepContainer"
    /\ val = NoCall
    /\ val' = [calls |-> SweepContainer(arg)]
    /\ UNCHANGED <<machine, history, template, arg, file, wr, rd, cwd, wd>>

\* ---- task list
\* listRunningTasks(arRoot, filterPipelineName) over the run directories that
\* hold a pipeline.json, each with its record (of which the pipeline name and
\* the running step, its name and its index k, are kept): the rows it prints,
\* or the error for a filter that is no pipeline name.
listRunningTasks(runDirs, filterPipelineName) ==
    LET root == Join(arRoot, <<"t", "a", "s", "k", "s">>)
        n == Len(root)
        filterNameSanitized == sanitizePipelineName(filterPipelineName)
    IN  IF filterPipelineName # <<>> /\ filterNameSanitized = <<>>
        THEN [err |-> TRUE, rows |-> {}]
        ELSE [err |-> FALSE,
              rows |-> {[pipelineName |-> runDirs[d].pipelineName,
                         taskID |-> d[n + 2],
                         containerID |-> ContainerID(d[n + 1], runDirs[d].stepName, runDirs[d].k),
                         stepName |-> runDirs[d].stepName] :
                           d \in {e \in DOMAIN runDirs :
                                     /\ Len(e) = n + 2
                                     /\ SubSeq(e, 1, n) = root
                                     /\ filterNameSanitized # <<>> => e[n + 1] = filterNameSanitized}}]

ListInit ==
    /\ Fresh
    /\ template = Template
    /\ arg \in {[fn |-> "List", pipelineName |-> n, taskID |-> t, filter |-> f] :
                  n \in {m \in PipelineNames : sanitizePipelineName(m) # <<>>}
                        \cup {<<"t", "a", "s", "k", "s">>},
                  t \in TaskIDs,
                  f \in {"none", "pipeline"}}
    /\ val = NoCall
    /\ NoIO
    /\ NoChdir

\* Run of the pipeline has written its record with step a (index 0) running;
\* `task list`, with or without -p <pipeline>.
ListCall ==
    /\ arg.fn = "List"
    /\ val = NoCall
    /\ \E taskID \in (IF arg.taskID = <<>> THEN GeneratedIDs ELSE {arg.taskID}) :
          LET runDir == RunDir(arg.pipelineName, taskID)
              runData == [pipelineName |-> arg.pipelineName, stepName |-> <<"a">>, k |-> 1]
              runDirs == [d \in {runDir} |-> runData]
              listed == listRunningTasks(runDirs,
                                         IF arg.filter = "none" THEN <<>> ELSE arg.pipelineName)
          IN  val' = [err |-> listed.err, rows |-> listed.rows, taskID |-> taskID]
    /\ UNCHANGED <<machine, history, template, arg, file, wr, rd, cwd, wd>>

\* ---- archives
\* strings.ToLower on the characters of the archive names
ToLower(s) ==
    [i \in DOMAIN s |->
        CASE s[i] = "T" -> "t" [] s[i] = "G" -> "g" [] s[i] = "Z" -> "z" [] OTHER -> s[i]]

HasSuffix(s, suffix) ==
    Len(s) >= Len(suffix) /\ SubSeq(s, Len(s) - Len(suffix) + 1, Len(s)) = suffix

\* isGzipHeader: the bytes 0x1f 0x8b
isGzipHeader(header) == Len(header) >= 2 /\ header[1] = 31 /\ header[2] = 139

\* What the function never does when it gives the archive back as it is.
NoTemp == <<>>
tmpName == <<"t", "m", "p", ".", "t", "a", "r">>

\* normalizeArchiveToTar(archivePath) on a file with the given bytes, as the
\* gzip reader accepts the stream or not (inflates) and as the system calls
\* succeed or not (fault): the path and error it returns, the temporary file
\* its cleanup removes and the temporary files that exist at the return.
normalizeArchiveToTar(archivePath, bytes, inflates, fault) ==
    LET lower == ToLower(archivePath)
        asIs == [path |-> archivePath, err |-> FALSE, cleans |-> NoTemp, temps |-> {}]
        error == [path |-> <<>>, err |-> TRUE, cleans |-> NoTemp, temps |-> {}]
    IN  IF HasSuffix(lower, <<".", "t", "a", "r">>) THEN asIs
        ELSE IF /\ ~HasSuffix(lower, <<".", "t", "a", "r", ".", "g", "z">>)
                /\ ~HasSuffix(lower, <<".", "t", "g", "z">>)
        THEN asIs
        ELSE IF fault = "open" THEN error
        ELSE IF Len(bytes) < 2 \/ fault = "read" THEN error
        ELSE IF ~isGzipHeader(SubSeq(bytes, 1, 2)) THEN asIs
        ELSE IF fault = "seek" THEN error
        ELSE IF ~inflates THEN error
        ELSE IF fault \in {"create", "copy", "close"} THEN error
        ELSE [path |-> tmpName, err |-> FALSE, cleans |-> tmpName, temps |-> {tmpName}]

ArchiveNames ==
    {<<"a">> \o ext : ext \in {<<".", "t", "a", "r">>, <<".", "t", "a", "r", ".", "g", "z">>,
                                  <<".", "t", "g", "z">>, <<".", "T", "G", "Z">>,
                                  <<".", "i", "m", "g">>, <<>>}}
ArchiveBytes == UNION {[1 .. n -> {0, 31, 139}] : n \in 0 .. MaxBytes}
ArchiveFaults == {"none", "open", "read", "seek", "create", "copy", "close"}

NormalizeInit ==
    /\ Fresh
    /\ template = Template
    /\ arg \in [fn : {"normalizeArchiveToTar"}, archivePath : ArchiveNames,
                 bytes : ArchiveBytes, inflates : BOOLEAN, fault : ArchiveFaults]
    /\ val = NoCall
    /\ NoIO
    /\ NoChdir

NormalizeCall ==
    /\ arg.fn = "normalizeArchiveToTar"
    /\ val = NoCall
    /\ val' = [at |-> "returned",
               ret |-> normalizeArchiveToTar(arg.archivePath, arg.bytes, arg.inflates, arg.fault),
               temps |-> normalizeArchiveToTar(arg.archivePath, arg.bytes,
                                               arg.inflates, arg.fault).temps]
    /\ UNCHANGED <<machine, history, template, arg, file, wr, rd, cwd, wd>>

\* The caller runs the cleanup that was returned: os.Remove(tmpName), or
\* nothing.
CleanupCall ==
    /\ arg.fn = "normalizeArchiveToTar"
    /\ val # NoCall
    /\ val.at = "returned"
    /\ val' = [val EXCEPT !.at = "cleaned", !.temps = @ \ {val.ret.cleans}]
    /\ UNCHANGED <<machine, history, template, arg, file, wr, rd, cwd, wd>>

\* ---- image names
\* strings.Index and strings.LastIndex, counted from 1; 0 when c is not in s
IndexOf(s, c) ==
    IF \E i \in DOMAIN s : s[i] = c
    THEN CHOOSE i \in DOMAIN s : s[i] = c /\ \A j \in 1 .. i - 1 : s[j] # c
    ELSE 0

LastIndexOf(s, c) ==
    IF \E i \in DOMAIN s : s[i] = c
    THEN CHOOSE i \in DOMAIN s : s[i] = c /\ \A j \in i + 1 .. Len(s) : s[j] # c
    ELSE 0

\* value[:at] when an "@" is after the first character
CutDigest(value) ==
    IF IndexOf(value, "@") > 1 THEN SubSeq(value, 1, IndexOf(value, "@") - 1) ELSE value

\* value[:colon] when the last ":" is after the last "/"
CutTag(value) ==
    IF LastIndexOf(value, ":") > LastIndexOf(value, "/")
    THEN SubSeq(value, 1, LastIndexOf(value, ":") - 1)
    ELSE value

\* The strings.NewReplacer of "/", ":", "@" and " " by "_".
ReplaceSeparators(value) ==
    [i \in DOMAIN value |-> IF value[i] \in {"/", ":", "@", " "} THEN "_" ELSE value[i]]

\* The loop over the runes: every rune that is not a letter, a digit, "_",
\* "-" or "." becomes "_".
IsImageRune(r) == r \in Letters \cup {"A"} \cup Digits \cup {"_", "-", "."}
MapRunes(value) == [i \in DOMAIN value |-> IF IsImageRune(value[i]) THEN value[i] ELSE "_"]

sanitizeImageNameUntrimmed(raw) ==
    LET value == Trim(raw, {" "}) IN
    IF value = <<>> THEN <<>>
    ELSE LET trimmed == Trim(ReplaceSeparators(CutTag(CutDigest(value))), {".", "_", "-"}) IN
         IF trimmed = <<>> THEN <<>> ELSE MapRunes(trimmed)

sanitizeImageName(raw) ==
    LET value == Trim(raw, {" "}) IN
    IF value = <<>> THEN <<>>
    ELSE LET trimmed == Trim(ReplaceSeparators(CutTag(CutDigest(value))), {".", "_", "-"}) IN
         IF trimmed = <<>> THEN <<>> ELSE Trim(MapRunes(trimmed), {".", "_", "-"})

RawChars == {"a", "A", "1", ".", "-", "/", ":", "@", " ", "#"}
RawNames == UNION {[1 .. n -> RawChars] : n \in 0 .. MaxRawLen}

SanitizeInit ==
    /\ Fresh
    /\ template = Template
    /\ arg \in {[fn |-> "sanitizeImageName", raw |-> r] : r \in RawNames}
    /\ val = NoCall
    /\ NoIO
    /\ NoChdir

\* sanitizeImageName(raw), and sanitizeImageName of what it returned
SanitizeCall ==
    /\ arg.fn = "sanitizeImageName"
    /\ val = NoCall
    /\ val' = [once |-> sanitizeImageName(arg.raw),
               twice |-> sanitizeImageName(sanitizeImageName(arg.raw))]
    /\ UNCHANGED <<machine, history, template, arg, file, wr, rd, cwd, wd>>

\* ---- the image store
\* The directory entries of storeDir in the order of os.ReadDir (by name).
StoreNames == <<<<".", "h">>, <<"a">>, <<"r", "_", "a">>>>

\* What is at a name of storeDir: nothing, a file, a directory that is not an
\* OCI layout, or a layout with its ref.name annotation ("" without one).
Absent == [kind |-> "absent", ref |-> <<>>]
StoreKinds ==
    {Absent, [kind |-> "file", ref |-> <<>>], [kind |-> "dir", ref |-> <<>>]}
    \cup {[kind |-> "layout", ref |-> r] : r \in {<<>>, <<"r", "/", "a">>, <<"b", ":", "1">>}}

\* ListImages: the layouts whose name does not start with ".", with the
\* name as the ref of a layout without annotation.
ImageEntry(store, name) ==
    [Name |-> name, Ref |-> IF store[name].ref = <<>> THEN name ELSE store[name].ref]

\* The order of os.ReadDir: by file name, byte by byte.
CharOrder ==
    <<" ", "#", "-", ".", "/", "1", "2", ":", "@", "A", "_",
      "a", "b", "e", "g", "h", "i", "m", "r">>
Rank(c) == CHOOSE i \in DOMAIN CharOrder : CharOrder[i] = c

RECURSIVE NameLess(_, _)
NameLess(s, t) ==
    IF s = <<>> THEN t # <<>>
    ELSE IF t = <<>> THEN FALSE
    ELSE IF Head(s) = Head(t) THEN NameLess(Tail(s), Tail(t))
    ELSE Rank(Head(s)) < Rank(Head(t))

RECURSIVE ReadDir(_)
ReadDir(names) ==
    IF names = {} THEN <<>>
    ELSE LET first == CHOOSE n \in names : \A m \in names \ {n} : NameLess(n, m)
         IN  <<first>> \o ReadDir(names \ {first})

ListImages(store) ==
    LET listed(name) == store[name].kind = "layout" /\ Head(name) # "."
        names == SelectSeq(ReadDir(DOMAIN store), listed)
    IN  [i \in 1 .. Len(names) |-> ImageEntry(store, names[i])]

\* ReferencedImageNames: for the image of every step of every template that
\* is not blank, the trimmed image and its sanitized name if not empty.
ReferencedImageNames(images) ==
    UNION {{Trim(img, {" "})} \cup (IF sanitizeImageName(Trim(img, {" "})) = <<>>
                                     THEN {}
                                     ELSE {sanitizeImageName(Trim(img, {" "}))}) :
           img \in {i \in images : Trim(i, {" "}) # <<>>}}

UnreferencedByName(entry, referenced) == entry.Name \notin referenced

\* The two tests of the loop of PruneImages
Unreferenced(entry, referenced) ==
    entry.Name \notin referenced /\ entry.Ref \notin referenced

\* The loop of PruneImages over the rest of the list: os.RemoveAll fails at
\* the failAt-th removal (0: never).
RECURSIVE PruneLoop(_, _, _, _, _)
PruneLoop(store, list, referenced, pruned, failAt) ==
    IF list = <<>> THEN [pruned |-> pruned, err |-> FALSE, store |-> store]
    ELSE IF ~Unreferenced(Head(list), referenced)
    THEN PruneLoop(store, Tail(list), referenced, pruned, failAt)
    ELSE IF failAt = Len(pruned) + 1
    THEN [pruned |-> pruned, err |-> TRUE, store |-> store]
    ELSE PruneLoop([store EXCEPT ![Head(list).Name] = Absent], Tail(list), referenced,
                   Append(pruned, Head(list).Name), failAt)

PruneImages(store, images, failAt) ==
    PruneLoop(store, ListImages(store), ReferencedImageNames(images), <<>>, failAt)

\* OpenImageFromStore up to the choice of the layout: the name of the first
\* entry of the list that the argument matches, by name, by ref or by
\* sanitized name; not found without one.
NotFound == <<"not found">>

Matches(e, imageNameOrRef) ==
    \/ e.Name = imageNameOrRef
    \/ e.Ref = imageNameOrRef
    \/ (sanitizeImageName(imageNameOrRef) # <<>> /\ e.Name = sanitizeImageName(imageNameOrRef))

OpenImageFromStore(store, imageNameOrRef) ==
    LET list == ListImages(store)
        hits == {i \in DOMAIN list : Matches(list[i], imageNameOrRef)}
    IN  IF hits = {} THEN NotFound
        ELSE list[CHOOSE i \in hits : \A j \in hits : i <= j].Name

OpenArgs == {<<"a">>, <<"r", "/", "a">>, <<"r", "_", "a">>, <<"b", ":", "1">>, <<"c">>}

OpenInit ==
    /\ Fresh
    /\ template = Template
    /\ arg \in [fn : {"OpenImageFromStore"},
                store : [{StoreNames[i] : i \in DOMAIN StoreNames} -> StoreKinds],
                imageNameOrRef : OpenArgs]
    /\ val = NoCall
    /\ NoIO
    /\ NoChdir

OpenCall ==
    /\ arg.fn = "OpenImageFromStore"
    /\ val = NoCall
    /\ val' = [layoutPath |-> OpenImageFromStore(arg.store, arg.imageNameOrRef)]
    /\ UNCHANGED <<machine, history, template, arg, file, wr, rd, cwd, wd>>

\* writeImageToStore(img, imageRef, storeRoot) that succeeds: the directory of
\* the sanitized ref ("image" without one) is removed and written again as
\* a layout of img, with the ref as annotation unless it is blank.
writeImageToStore(store, img, imageRef) ==
    LET name == IF sanitizeImageName(imageRef) = <<>>
                THEN <<"i", "m", "a", "g", "e">>
                ELSE sanitizeImageName(imageRef)
        entry == [kind |-> "layout",
                  ref |-> IF Trim(imageRef, {" "}) # <<>> THEN imageRef ELSE <<>>,
                  img |-> img]
    IN  [n \in DOMAIN store \cup {name} |-> IF n = name THEN entry ELSE store[n]]

\* The references of the images written: names with a tag, with a
\* repository, with the characters the store name gets, a blank one.
WriteRefs ==
    {<<"a">>, <<"a", ":", "1">>, <<"a", ":", "2">>, <<"r", "/", "a">>, <<"r", "_", "a">>,
     <<"b">>, <<" ">>}

\* write(A, R1), write(B, R2) and open(R1) on an empty store directory
WritesInit ==
    /\ Fresh
    /\ template = Template
    /\ arg \in [fn : {"writeImageToStore"}, R1 : WriteRefs, R2 : WriteRefs]
    /\ val = [written |-> 0, store |-> <<>>, opened |-> "none"]
    /\ NoIO
    /\ NoChdir

WriteCall ==
    /\ arg.fn = "writeImageToStore"
    /\ val.written < 2
    /\ val' = [val EXCEPT
                  !.written = @ + 1,
                  !.store = IF val.written = 0
                            THEN writeImageToStore(val.store, "A", arg.R1)
                            ELSE writeImageToStore(val.store, "B", arg.R2)]
    /\ UNCHANGED <<machine, history, template, arg, file, wr, rd, cwd, wd>>

\* OpenImageFromStore(storeDir, R1) after the two writes: the image of the
\* layout it opens.
OpenAfterWritesCall ==
    /\ arg.fn = "writeImageToStore"
    /\ val.written = 2
    /\ val.opened = "none"
    /\ val' = [val EXCEPT
                  !.opened = LET path == OpenImageFromStore(val.store, arg.R1) IN
                             IF path = NotFound THEN "not found" ELSE val.store[path].img]
    /\ UNCHANGED <<machine, history, template, arg, file, wr, rd, cwd, wd>>

TemplateImages == {<<"a">>, <<"r", "/", "a">>, <<"b", ":", "1">>, <<" ">>}

PruneInit ==
    /\ Fresh
    /\ template = Template
    /\ arg \in [fn : {"PruneImages"},
                 store : [{StoreNames[i] : i \in DOMAIN StoreNames} -> StoreKinds],
                 images : SUBSET TemplateImages,
                 failAt : 0 .. 2]
    /\ val = NoCall
    /\ NoIO
    /\ NoChdir

PruneCall ==
    /\ arg.fn = "PruneImages"
    /\ val = NoCall
    /\ val' = [referenced |-> ReferencedImageNames(arg.images),
               ret |-> PruneImages(arg.store, arg.images, arg.failAt)]
    /\ UNCHANGED <<machine, history, template, arg, file, wr, rd, cwd, wd>>

\* ---- the runtime spec of a step
\* The process args writeRuntimeSpecForRun computes from the step (its
\* entrypoint, a string, and its args) and the image config (Entrypoint and
\* Cmd); the error for no args at all.
ProcessArgs(step, cfg) ==
    LET first == IF Trim(step.Entrypoint, {" "}) # <<>>
                 THEN <<step.Entrypoint>>
                 ELSE cfg.Entrypoint
        args == first \o step.Args
        all == IF args = <<>> THEN cfg.Cmd ELSE args
    IN  [err |-> all = <<>>, args |-> all]

SpecSteps ==
    [Entrypoint : {<<>>, <<" ">>, <<"e">>},
     Args : {<<>>, <<<<"x">>>>, <<<<"x">>, <<"y">>>>}]
ImageConfigs ==
    [Entrypoint : {<<>>, <<<<"i">>>>, <<<<"i">>, <<"j">>>>},
     Cmd : {<<>>, <<<<"c">>>>, <<<<"c">>, <<"d">>>>}]

ProcessArgsInit ==
    /\ Fresh
    /\ template = Template
    /\ arg \in [fn : {"writeRuntimeSpecForRun"}, step : SpecSteps, cfg : ImageConfigs]
    /\ val = NoCall
    /\ NoIO
    /\ NoChdir

ProcessArgsCall ==
    /\ arg.fn = "writeRuntimeSpecForRun"
    /\ val = NoCall
    /\ val' = ProcessArgs(arg.step, arg.cfg)
    /\ UNCHANGED <<machine, history, template, arg, file, wr, rd, cwd, wd>>

\* ---- rendering of a step with a node
\* A string is a sequence of pieces: plain text, a token {{key}}, a token
\* {{.key}} of text/template, or (in a result) the value put for a token.
Text(chars) == [t |-> "text", s |-> chars]
Tok(key) == [t |-> "tok", s |-> <<key>>]
DotTok(key) == [t |-> "dot", s |-> <<key>>]
Value(chars) == [t |-> "val", s |-> chars]

RECURSIVE labelsString(_)
labelsString(labels) ==
    IF labels = <<>> THEN <<>>
    ELSE IF Len(labels) = 1 THEN <<labels[1].Key, "=", labels[1].Value>>
    ELSE labelsString(SubSeq(labels, 1, Len(labels) - 1))
         \o <<",", labels[Len(labels)].Key, "=", labels[Len(labels)].Value>>

\* The map m that RenderStep builds from the node.
RenderMap(node) ==
    [k \in {"node_ip", "node_port", "node_username", "node_password", "node_labels"} |->
        CASE k = "node_ip" -> node.IP
          [] k = "node_port" -> node.Port
          [] k = "node_username" -> node.Username
          [] k = "node_password" -> node.Password
          [] k = "node_labels" -> labelsString(node.Labels)]

\* The loop of strings.ReplaceAll: {{k}} becomes {{.k}} for every key of m.
ReplaceAllKeys(str, m) ==
    [i \in DOMAIN str |->
        IF str[i].t = "tok" /\ str[i].s[1] \in DOMAIN m THEN DotTok(str[i].s[1]) ELSE str[i]]

\* template.Parse: {{name}} is a call of the function name, and no function
\* is defined, so parsing fails on it.
ParseFails(str) == \E i \in DOMAIN str : str[i].t = "tok"

\* Template.Execute with m: {{.k}} gives m[k], the empty string for a key
\* that m does not have.
Execute(str, m) ==
    [i \in DOMAIN str |->
        IF str[i].t = "dot"
        THEN Value(IF str[i].s[1] \in DOMAIN m THEN m[str[i].s[1]] ELSE <<>>)
        ELSE str[i]]

renderString(str, m) ==
    LET replaced == ReplaceAllKeys(str, m) IN
    IF ParseFails(replaced) THEN replaced ELSE Execute(replaced, m)

RenderNodes ==
    {[IP |-> <<"1">>, Port |-> <<"2">>, Username |-> <<"u">>, Password |-> <<"w">>, Labels |-> ls] :
        ls \in {<<>>, <<[Key |-> "k", Value |-> "v"]>>,
                 <<[Key |-> "k", Value |-> "v"], [Key |-> "l", Value |-> "w"]>>}}

Pieces ==
    {Text(<<"a">>), Tok("foo")}
    \cup {Tok(k) : k \in {"node_ip", "node_port", "node_username", "node_password", "node_labels"}}

RenderInit ==
    /\ Fresh
    /\ template = Template
    /\ arg \in {[fn |-> "renderString", s |-> str, node |-> n] :
                  str \in UNION {[1 .. n -> Pieces] : n \in 0 .. MaxPieces}, n \in RenderNodes}
    /\ val = NoCall
    /\ NoIO
    /\ NoChdir

RenderCall ==
    /\ arg.fn = "renderString"
    /\ val = NoCall
    /\ val' = [out |-> renderString(arg.s, RenderMap(arg.node))]
    /\ UNCHANGED <<machine, history, template, arg, file, wr, rd, cwd, wd>>

\* ---- tar extraction
\* A file system is a function from absolute paths (sequences of elements) to
\* nodes: directories, files and symbolic links with their target.
destDir == <<"dest">>
DirNode == [kind |-> "dir", abs |-> FALSE, target |-> <<>>]
FileNode == [kind |-> "file", abs |-> FALSE, target |-> <<>>]
LinkNode(linkname) == [kind |-> "link", abs |-> linkname.abs, target |-> linkname.elems]

\* The host before the extraction: /, the destination directory and /etc.
InitialFS == [p \in {<<>>, destDir, <<"etc">>} |-> DirNode]

\* filepath.Clean of a relative path: x/.. goes away, leading .. stay.
RECURSIVE CleanRel(_, _)
CleanRel(elems, out) ==
    IF elems = <<>> THEN out
    ELSE IF Head(elems) = ".." /\ out # <<>> /\ out[Len(out)] # ".."
         THEN CleanRel(Tail(elems), SubSeq(out, 1, Len(out) - 1))
         ELSE CleanRel(Tail(elems), Append(out, Head(elems)))

\* safeJoin(destDir, tarEntry): the path under destDir, or the error for an
\* entry that is lexically outside of it.
safeJoin(tarEntry) ==
    LET clean == CleanRel(tarEntry, <<>>) IN
    IF clean # <<>> /\ clean[1] = ".."
    THEN [err |-> TRUE, path |-> <<>>]
    ELSE [err |-> FALSE, path |-> destDir \o clean]

\* What a path resolution that meets too many symbolic links gives.
NoPath == <<"ELOOP">>

\* The kernel's path resolution: the location of cur/rest with the symbolic
\* links on the way followed, the last element's too if followLast.
RECURSIVE Walk(_, _, _, _, _)
Walk(fs, cur, rest, followLast, fuel) ==
    IF rest = <<>> THEN cur
    ELSE LET e == Head(rest)
             next == Append(cur, e)
             more == Tail(rest)
         IN  IF e = ".."
             THEN Walk(fs, IF cur = <<>> THEN <<>> ELSE Dir(cur), more, followLast, fuel)
             ELSE IF next \in DOMAIN fs /\ fs[next].kind = "link" /\ (more # <<>> \/ followLast)
                  THEN IF fuel = 0
                       THEN NoPath
                       ELSE Walk(fs, IF fs[next].abs THEN <<>> ELSE cur,
                                 fs[next].target \o more, followLast, fuel - 1)
                  ELSE Walk(fs, next, more, followLast, fuel)

Resolve(fs, path, followLast) == Walk(fs, <<>>, path, followLast, 2 * Cardinality(DOMAIN fs))

PathPrefixes(c) == {SubSeq(c, 1, n) : n \in 0 .. Len(c)}

Failed(fs) == [err |-> TRUE, fs |-> fs, made |-> {}]

\* fs with node n at the location c
WithNode(fs, c, n) == [p \in DOMAIN fs \cup {c} |-> IF p = c THEN n ELSE fs[p]]

\* os.MkdirAll(path), c being the location of path: the missing directories
\* are made; an error if a file is in the way.
MkdirAll(fs, c) ==
    IF c = NoPath \/ \E p \in PathPrefixes(c) : p \in DOMAIN fs /\ fs[p].kind = "file"
    THEN Failed(fs)
    ELSE [err |-> FALSE,
          fs |-> [p \in DOMAIN fs \cup PathPrefixes(c) |-> IF p \in DOMAIN fs THEN fs[p] ELSE DirNode],
          made |-> PathPrefixes(c) \ DOMAIN fs]

\* os.RemoveAll(path), c being the location of path (last link not followed)
RemoveAll(fs, c) ==
    [p \in {q \in DOMAIN fs : ~(Len(q) >= Len(c) /\ SubSeq(q, 1, Len(c)) = c)} |-> fs[p]]

\* The location of targetPath with the last element not followed: where
\* Symlink and Link make their entry, with the directory of targetPath made.
Parent(path) == IF path = <<>> THEN <<>> ELSE Dir(path)

\* One iteration of extractTarStream for the header h: the error, the file
\* system afterwards and the locations that were made or written.
ExtractEntry(fs, h) ==
    LET j == safeJoin(h.name) IN
    IF j.err THEN Failed(fs)
    ELSE IF h.type = "dir"
    THEN MkdirAll(fs, Resolve(fs, j.path, TRUE))
    ELSE LET m == MkdirAll(fs, Resolve(fs, Parent(j.path), TRUE)) IN
         IF m.err THEN Failed(fs)
         ELSE IF h.type = "reg"
         THEN LET c == Resolve(m.fs, j.path, TRUE) IN
              IF \/ c = NoPath
                 \/ c \in DOMAIN m.fs /\ m.fs[c].kind = "dir"
                 \/ Parent(c) \notin DOMAIN m.fs
                 \/ m.fs[Parent(c)].kind # "dir"
              THEN [err |-> TRUE, fs |-> m.fs, made |-> m.made]
              ELSE [err |-> FALSE, fs |-> WithNode(m.fs, c, FileNode), made |-> m.made \cup {c}]
         ELSE LET c == Resolve(m.fs, j.path, FALSE) IN
              IF h.type = "symlink"
              THEN [err |-> FALSE,
                    fs |-> WithNode(RemoveAll(m.fs, c), c, LinkNode(h.linkname)),
                    made |-> m.made \cup {c}]
              ELSE LET t == safeJoin(Parent(h.name) \o h.linkname.elems)
                       src == IF t.err THEN NoPath ELSE Resolve(m.fs, t.path, FALSE)
                       rest == RemoveAll(m.fs, c)
                   IN  IF t.err \/ src \notin DOMAIN rest \/ rest[src].kind = "dir"
                       THEN [err |-> TRUE, fs |-> IF t.err THEN fs ELSE rest, made |-> m.made]
                       ELSE [err |-> FALSE, fs |-> WithNode(rest, c, rest[src]),
                             made |-> m.made \cup {c}]

\* extractTarStream over the headers: it stops at the first error.
RECURSIVE ExtractTarStream(_, _, _)
ExtractTarStream(fs, headers, made) ==
    IF headers = <<>>
    THEN [err |-> FALSE, fs |-> fs, made |-> made]
    ELSE LET r == ExtractEntry(fs, Head(headers)) IN
         IF r.err
         THEN [err |-> TRUE, fs |-> r.fs, made |-> made \cup r.made]
         ELSE ExtractTarStream(r.fs, Tail(headers), made \cup r.made)

\* The headers of a stream: names of one or two elements, link names that are
\* absolute (/etc) or relative (x).
TarNames == UNION {[1 .. n -> {"l", "x", ".."}] : n \in 1 .. 2}
LinkNames == {[abs |-> TRUE, elems |-> <<"etc">>], [abs |-> FALSE, elems |-> <<"x">>]}
Headers ==
    [type : {"dir", "reg"}, name : TarNames, linkname : {[abs |-> FALSE, elems |-> <<>>]}]
    \cup [type : {"symlink", "link"}, name : TarNames, linkname : LinkNames]

ExtractInit ==
    /\ Fresh
    /\ template = Template
    /\ arg \in {[fn |-> "extractTarStream", headers |-> hs] :
                  hs \in UNION {[1 .. n -> Headers] : n \in 0 .. MaxEntries}}
    /\ val = NoCall
    /\ NoIO
    /\ NoChdir

ExtractCall ==
    /\ arg.fn = "extractTarStream"
    /\ val = NoCall
    /\ val' = ExtractTarStream(InitialFS, arg.headers, {})
    /\ UNCHANGED <<machine, history, template, arg, file, wr, rd, cwd, wd>>

\* ---- Loader.Load
\* The state of one call of Load is kept in val: its position, the context,
\* the one-shot container, the image store and what it returned.
LoadRefs == {"a", "b"}
Children == UNION {[1 .. n -> [ok : BOOLEAN, ref : LoadRefs]] : n \in 0 .. MaxChildren}

LoadInit ==
    /\ Fresh
    /\ template = Template
    /\ arg \in [fn : {"Load"},
                fault : {"none", "archive", "rootfs", "spec", "create", "run", "wait"},
                exit : {0, 1},
                children : Children,
                store : SUBSET {"a", "c"}]
    /\ val = [pc |-> "begin", ctx |-> "live", proc |-> "none", code |-> 0,
              branch |-> "none", store |-> arg.store, writes |-> 0, next |-> 1,
              ret |-> "none"]
    /\ NoIO
    /\ NoChdir

LoadFrame == UNCHANGED <<machine, history, template, arg, file, wr, rd, cwd, wd>>

LoadReturn(r) == [val EXCEPT !.pc = "done", !.ret = r]

\* The result of the waitCh case: the error of Wait, the exit code.
WaitAlwaysNil(waitErr, code) == "nil"
WaitResult(waitErr, code) == IF waitErr \/ code # 0 THEN "error" ELSE "nil"

\* Load up to the start of the container: the archive is read, the rootfs
\* unpacked, the runtime spec written, the container created and run.
LoadPrepare ==
    /\ arg.fn = "Load"
    /\ val.pc = "begin"
    /\ val' = IF arg.fault \in {"archive", "rootfs", "spec", "create", "run"}
              THEN LoadReturn("error")
              ELSE [val EXCEPT !.pc = "select", !.proc = "running"]
    /\ LoadFrame

\* The process of the container exits by itself.
LoadProcExit ==
    /\ arg.fn = "Load"
    /\ val.proc = "running"
    /\ val' = [val EXCEPT !.proc = "exited", !.code = arg.exit]
    /\ LoadFrame

\* The caller cancels the context of Load.
LoadCancel ==
    /\ arg.fn = "Load"
    /\ val.pc # "done"
    /\ val.ctx = "live"
    /\ val' = [val EXCEPT !.ctx = "cancelled"]
    /\ LoadFrame

\* The select of runOneShotContainer: the case of waitCh when the process
\* has exited, the case of ctx.Done when the context is cancelled (the
\* process is killed and waited for), either of them when both are ready.
LoadSelect ==
    /\ arg.fn = "Load"
    /\ val.pc = "select"
    /\ \/ /\ val.proc = "exited"
          /\ val' = IF WaitResult(arg.fault = "wait", val.code) = "error"
                    THEN [LoadReturn("error") EXCEPT !.branch = "wait"]
                    ELSE [val EXCEPT !.pc = "ingest", !.branch = "wait"]
       \/ /\ val.ctx = "cancelled"
          /\ val' = [LoadReturn("error") EXCEPT
                        !.branch = "cancel",
                        !.proc = "exited",
                        !.code = IF val.proc = "running" THEN 137 ELSE @]
    /\ LoadFrame

\* One iteration of loadAllImagesFromDir, or its end and the end of Load.
LoadIngest ==
    /\ arg.fn = "Load"
    /\ val.pc = "ingest"
    /\ val' = IF val.next > Len(arg.children)
              THEN LoadReturn("nil")
              ELSE IF ~arg.children[val.next].ok
              THEN LoadReturn("error")
              ELSE [val EXCEPT !.store = @ \cup {arg.children[val.next].ref},
                               !.writes = @ + 1,
                               !.next = @ + 1]
    /\ LoadFrame

\* ---- the working directory of the host process
\* Calls of runOneShotContainer by goroutines of one process (one per task
\* that runs a step); call c has its own bundle directory.
ChdirInit ==
    /\ Fresh
    /\ template = Template
    /\ arg = NoCall
    /\ val = NoCall
    /\ NoIO
    /\ cwd = HostDir
    /\ wd = [c \in Callers |-> [pc |-> "getwd", oldWD |-> ""]]

\* oldWD, err := os.Getwd()
Getwd(c) ==
    /\ wd[c].pc = "getwd"
    /\ \/ wd' = [wd EXCEPT ![c] = [pc |-> "chdir", oldWD |-> cwd]]
       \/ wd' = [wd EXCEPT ![c] = [pc |-> "done", oldWD |-> ""]]
    /\ UNCHANGED <<machine, history, template, arg, val, file, wr, rd, cwd>>

\* os.Chdir(bundleDir) and the registration of the deferred os.Chdir(oldWD);
\* on an error the function returns.
Chdir(c) ==
    /\ wd[c].pc = "chdir"
    /\ \/ /\ cwd' = BundleDir(c)
          /\ wd' = [wd EXCEPT ![c].pc = "run"]
       \/ /\ cwd' = cwd
          /\ wd' = [wd EXCEPT ![c] = [pc |-> "done", oldWD |-> ""]]
    /\ UNCHANGED <<machine, history, template, arg, val, file, wr, rd>>

\* The rest of the function (Create, Run, the select) and its return through
\* the deferred os.Chdir(oldWD).
ChdirBack(c) ==
    /\ wd[c].pc = "run"
    /\ cwd' = wd[c].oldWD
    /\ wd' = [wd EXCEPT ![c] = [pc |-> "done", oldWD |-> ""]]
    /\ UNCHANGED <<machine, history, template, arg, val, file, wr, rd>>

\* ---- TopoOrder
TopoOrderInit ==
    /\ Fresh
    /\ template = Template
    /\ arg \in {[fn |-> "TopoOrder", steps |-> t] : t \in Templates}
    /\ val = NoCall
    /\ NoIO
    /\ NoChdir

\* order, err := TopoOrder(steps)
TopoOrderCall ==
    /\ arg.fn = "TopoOrder"
    /\ val = NoCall
    /\ val' \in TopoOrder(arg.steps)
    /\ UNCHANGED <<machine, history, template, arg, file, wr, rd, cwd, wd>>

\* ------------------------------------------------------------ specification
Next ==
    \/ RunBegin
    \/ RunMark
    \/ RunStart
    \/ RunWait
    \/ RunRecord
    \/ ResumeBegin
    \/ ResumeMark
    \/ ResumeStart
    \/ ResumeWait
    \/ ResumeRecord
    \/ \E p \in Procs : ProcExit(p)
    \/ \E p \in Procs : CtxCancel(p)
    \/ StopBegin
    \/ StopStep
    \/ StopKill
    \/ StopWrite

Spec == Init /\ [][Next]_vars

\* Run on a template file with a cycle.
CycleInit ==
    /\ Fresh
    /\ template \in {TemplateRing, TemplateLoopAndDangling}
    /\ arg = NoCall
    /\ val = NoCall
    /\ NoIO
    /\ NoChdir

CycleSpec == CycleInit /\ [][Next]_vars

LoadNext ==
    \/ LoadPrepare
    \/ LoadProcExit
    \/ LoadCancel
    \/ LoadSelect
    \/ LoadIngest

LoadSpec == LoadInit /\ [][LoadNext]_vars

TarNext ==
    \/ ExtractCall

TarSpec == ExtractInit /\ [][TarNext]_vars

ChdirNext ==
    \/ \E c \in Callers : Getwd(c)
    \/ \E c \in Callers : Chdir(c)
    \/ \E c \in Callers : ChdirBack(c)

ChdirSpec == ChdirInit /\ [][ChdirNext]_vars

FileNext ==
    \/ WriteFileOpen
    \/ WriteFileWrite
    \/ WriteFileClose
    \/ ReadPipelineJSON

FileSpec == WriteFileInit /\ [][FileNext]_vars

FnInit ==
    \/ TopoOrderInit
    \/ ContainerIDInit
    \/ TasksInit
    \/ SweepInit
    \/ StopSweepInit
    \/ ListInit
    \/ RenderInit
    \/ SanitizeInit
    \/ NormalizeInit
    \/ PruneInit
    \/ SweepContainerInit
    \/ OpenInit
    \/ ProcessArgsInit
    \/ WritesInit

FnNext ==
    \/ TopoOrderCall
    \/ ContainerIDCall
    \/ TasksCall
    \/ SweepCall
    \/ StopSweepCall
    \/ ListCall
    \/ RenderCall
    \/ SanitizeCall
    \/ NormalizeCall
    \/ CleanupCall
    \/ PruneCall
    \/ SweepContainerCall
    \/ OpenCall
    \/ ProcessArgsCall
    \/ WriteCall
    \/ OpenAfterWritesCall

FnSpec == FnInit /\ [][FnNext]_vars

\* ------------------------------------------------------------ properties
IsStatus(rec, i, st) == i \in DOMAIN rec /\ rec[i].status = st

\* The invocation p ends its iteration for a step whose RunStep failed.
StepFails(p) == pc[p] = "record" /\ result[p] # "ok" /\ pc'[p] # "record"

\* C1: when the container of step k fails in Run (driver error, non-zero
\* exit, kill), Run writes the record with step k failed and every later step
\* pending (a write whose failure it ignores), has started no container of a
\* later step, returns, and the error it returns names step k.
C1_FailStop ==
    [][StepFails("run") =>
         LET k == idx["run"] IN
         /\ "run" \in wrote'
         /\ \/ "run" \in wfail' /\ disk' = disk
            \/ /\ IsRecord(disk')
               /\ IsStatus(disk'.steps, k, StatusFailed)
               /\ \A j \in StepIdx : j > k => IsStatus(disk'.steps, j, StatusPending)
         /\ \A j \in started["run"] : j <= k
         /\ pc'["run"] = "done"
         /\ ret'["run"] = [kind |-> "step", step |-> data["run"][k].name]
         /\ ret'["run"].step = NameOf(k)]_vars

\* Run alone: step a has failed, Run has returned its error, b is pending.
C1_Witness ==
    /\ pc["run"] = "done"
    /\ ret["run"] = [kind |-> "step", step |-> "a"]
    /\ Calls = 0
    /\ IsRecord(disk)
    /\ IsStatus(disk.steps, 1, StatusFailed)
    /\ \A j \in StepIdx : j > 1 => IsStatus(disk.steps, j, StatusPending)

\* Position of the step named n in rec (0: none).
Pos(rec, n) ==
    LET ks == {k \in DOMAIN rec : rec[k].name = n} IN
    IF ks = {} THEN 0 ELSE CHOOSE k \in ks : TRUE

\* rec holds the steps of the template, each once, every step before the
\* steps its `nodes` name.
TopoSorted(rec) ==
    /\ Len(rec) = Len(template)
    /\ \A k \in DOMAIN template :
          LET t == template[k]
              at == Pos(rec, t.name)
          IN  /\ at # 0
              /\ rec[at].image = t.image /\ rec[at].args = t.args /\ rec[at].env = t.env
              /\ \A j \in DOMAIN t.nodes : at < Pos(rec, t.nodes[j])

\* C2: when Run has returned nil (every container exited 0, every write went
\* through) and nobody else has written the record, the statuses persisted for
\* each step are pending, running, success in that order, and pipeline.json
\* holds every step as success, in a topological order of the template.
C2_Trajectory ==
    (pc["run"] = "done" /\ ret["run"] = OkRet /\ wrote \subseteq {"run"}) =>
        /\ \A i \in StepIdx : hist[i] = <<StatusPending, StatusRunning, StatusSuccess>>
        /\ IsRecord(disk)
        /\ \A i \in StepIdx : IsStatus(disk.steps, i, StatusSuccess)
        /\ TopoSorted(disk.steps)

\* Run has gone through all steps and is the only writer so far.
C2_Witness ==
    /\ pc["run"] = "done"
    /\ ret["run"] = OkRet
    /\ wrote = {"run"}
    /\ \A i \in StepIdx : Len(hist[i]) = 3

RunningOnDisk == {i \in DOMAIN disk.steps : disk.steps[i].status = StatusRunning}

\* C3: whatever Run, Resume and stop have done to the task so far, in whatever
\* interleaving, pipeline.json holds at most one step with status running.
C3_OneRunning == Cardinality(RunningOnDisk) <= 1

\* A step is running on disk while Run, Resume and stop are all at work.
C3_Witness ==
    /\ Cardinality(RunningOnDisk) = 1
    /\ pc["run"] \notin {"init", "done"}
    /\ pc["resume"] \notin {"init", "done"}
    /\ stopPc \notin {"idle", "done"}
    /\ "resume" \in wrote

\* stop returns from its write of the record.
StopReturns == stopPc = "scan" /\ stopPc' = "done"

\* C4: the record stop writes is the record it read with every running or
\* pending step cancelled, every success, failed or cancelled step as it was,
\* and the name, image, args, env and order of all steps as they were; it is
\* what pipeline.json holds when stop returns nil (when the write fails stop
\* returns the error and the file is as before).
C4_StopFrame ==
    [][StopReturns =>
         \/ stopRet' = ErrRet("write") /\ disk' = disk
         \/ /\ stopRet' = OkRet
            /\ IsRecord(disk')
            /\ Len(disk'.steps) = Len(stopRead)
            /\ \A i \in DOMAIN stopRead :
                  LET old == stopRead[i]
                      new == disk'.steps[i]
                  IN  /\ new.status =
                            IF old.status \in {StatusRunning, StatusPending}
                            THEN StatusCancelled ELSE old.status
                      /\ new.name = old.name /\ new.image = old.image
                      /\ new.args = old.args /\ new.env = old.env]_vars

\* stop has read success, running(, pending), has returned nil, and the file
\* holds success, cancelled(, cancelled).
C4_Witness ==
    /\ stopPc = "done"
    /\ stopRet = OkRet
    /\ stopSaw = 2
    /\ IsRecord(disk)
    /\ IsStatus(disk.steps, 1, StatusSuccess)
    /\ \A i \in StepIdx : i > 1 => IsStatus(disk.steps, i, StatusCancelled)

\* One stop has read the record while Run was executing step a (a running,
\* the rest pending), stop and Run have both returned, stop with nil, no
\* write has failed and Resume has not been called.
StoppedDuringA ==
    /\ nStop = 1 /\ stopSaw = 1
    /\ stopPc = "done" /\ stopRet = OkRet
    /\ pc["run"] = "done"
    /\ nResume = 0
    /\ wfail = {}

\* C5: when stop is issued while Run is executing step a (a running, b
\* pending), then once both have returned pipeline.json holds a and b as
\* cancelled and the container of a is gone from the runtime root.
C5_StopDuringRun ==
    StoppedDuringA =>
        /\ IsRecord(disk)
        /\ \A i \in StepIdx : IsStatus(disk.steps, i, StatusCancelled)
        /\ ctr[1] = "absent"

\* The container of step j is started: its state directory appears.
CtrStarts(j) == ctr[j] = "absent" /\ ctr'[j] # "absent"

\* C6: once a step has been persisted as failed or cancelled, no container of
\* a later step is started until Resume is called, also when stop runs
\* concurrently with a live Run.
C6_NoStartAfterHalt ==
    [][\A j \in StepIdx : CtrStarts(j) => \A i \in 1 .. (j - 1) : ~halted[i]]_vars

\* C7: once a step has been persisted as success, no later write changes its
\* status and its container is not started again.
C7_SuccessIsFinal ==
    [][\A i \in succeeded :
          /\ IsRecord(disk') /\ IsStatus(disk'.steps, i, StatusSuccess)
          /\ ~CtrStarts(i)]_vars

AllSuccess(d) ==
    IsRecord(d) /\ \A i \in DOMAIN d.steps : d.steps[i].status = StatusSuccess

\* Resume is called.
ResumeCalled == nResume' = nResume + 1

\* C8: a call of Resume on a record whose steps are all success returns nil
\* at once: it writes nothing to pipeline.json (the file is as before),
\* starts no container and no process, and this holds for every such call.
C8_ResumeNoOp ==
    [][(ResumeCalled /\ AllSuccess(disk)) =>
         /\ pc'["resume"] = "done"
         /\ ret'["resume"] = OkRet
         /\ disk' = disk
         /\ wrote' = wrote
         /\ ctr' = ctr
         /\ proc' = proc]_vars

\* Resume has been called twice on the record Run completed and has returned
\* nil without a write; every step is success.
C8_Witness ==
    /\ nResume = 2
    /\ pc["resume"] = "done"
    /\ ret["resume"] = OkRet
    /\ "resume" \notin wrote
    /\ AllSuccess(disk)

\* C9: a call of Resume on a record with a step that is not success goes to
\* the first such step, whatever its status; and Resume starts the container
\* of step j only if j was not success in the record it read and every
\* earlier step was success in that record or has had its container started
\* by this call.
C9_ResumeFromFirst ==
    [][/\ (ResumeCalled /\ IsRecord(disk) /\ ~AllSuccess(disk)) =>
            /\ pc'["resume"] = "mark"
            /\ ~IsStatus(disk.steps, idx'["resume"], StatusSuccess)
            /\ \A i \in 1 .. (idx'["resume"] - 1) : IsStatus(disk.steps, i, StatusSuccess)
       /\ \A j \in StepIdx : (CtrStarts(j) /\ ctr'[j] = "resume") =>
            /\ ~IsStatus(readRec["resume"], j, StatusSuccess)
            /\ \A i \in 1 .. (j - 1) :
                  i \in started["resume"] \/ IsStatus(readRec["resume"], i, StatusSuccess)]_vars

\* Resume has read a = success, b = cancelled and has started the container
\* of b, and of b only.
C9_Witness ==
    /\ ctr[2] = "resume"
    /\ started["resume"] = {2}
    /\ IsStatus(readRec["resume"], 1, StatusSuccess)
    /\ IsStatus(readRec["resume"], 2, StatusCancelled)

\* A write of the record by p, in its loop, fails.
LoopWriteFails(p) == pc[p] \in {"mark", "record"} /\ p \in wfail' /\ p \notin wfail

Edges(steps) ==
    UNION {{<<steps[k].name, steps[k].nodes[j]>> : j \in DOMAIN steps[k].nodes} :
              k \in DOMAIN steps}

RECURSIVE Closure(_)
Closure(R) ==
    LET R2 == R \cup {<<q[1][1], q[2][2]>> : q \in {r \in R \X R : r[1][2] = r[2][1]}}
    IN  IF R2 = R THEN R ELSE Closure(R2)

HasCycle(steps) == \E e \in Closure(Edges(steps)) : e[1] = e[2]

\* An acyclic template with unique step names whose successors all exist.
ValidTemplate(steps) ==
    /\ \A k, j \in DOMAIN steps : steps[k].name = steps[j].name => k = j
    /\ \A e \in Edges(steps) : \E k \in DOMAIN steps : steps[k].name = e[2]
    /\ ~HasCycle(steps)

\* TopoOrder has been called on steps and has returned.
TopoOrderReturned == arg.fn = "TopoOrder" /\ val # NoCall

\* C11: on an acyclic template with unique step names whose successors all
\* exist, TopoOrder returns no error and a list as long as the template in
\* which every step of the template appears exactly once, after every step
\* that names it in its nodes.
C11_TopoOrder ==
    (TopoOrderReturned /\ ValidTemplate(arg.steps)) =>
        /\ ~val.err
        /\ Len(val.order) = Len(arg.steps)
        /\ \A k \in DOMAIN arg.steps :
              Cardinality({j \in DOMAIN val.order : val.order[j] = arg.steps[k]}) = 1
        /\ \A e \in Edges(arg.steps) : Pos(val.order, e[1]) < Pos(val.order, e[2])

\* TopoOrder has ordered a valid template of two steps whose first step is
\* the successor of the second.
C11_Witness ==
    /\ TopoOrderReturned
    /\ ValidTemplate(arg.steps)
    /\ Len(arg.steps) = 2
    /\ <<arg.steps[2].name, arg.steps[1].name>> \in Edges(arg.steps)
    /\ ~val.err
    /\ val.order[1] = arg.steps[2]

\* Run is called.
RunCalled == pc["run"] = "init" /\ pc'["run"] # "init"

\* C12: Run on a template with a cycle returns an error (of LoadTemplate's or
\* TopoOrder's, or for the missing nodes) without a run directory, a
\* pipeline.json or a container.
C12_CycleRejected ==
    [][(RunCalled /\ HasCycle(template)) =>
         /\ pc'["run"] = "done"
         /\ ret'["run"].kind \in {"nodes", "template", "topo"}
         /\ disk' = NoFile
         /\ wrote' = wrote
         /\ ctr' = ctr]_vars

ContainerIDReturned == arg.fn = "ContainerID" /\ val # NoCall /\ ~val.err

TasksReturned == arg.fn = "Tasks" /\ val # NoCall

\* C14: two tasks running in one host, of the same pipeline or not, have no
\* container id in common.
C14_DistinctContainerIDs ==
    TasksReturned => val.ids[1] \cap val.ids[2] = {}

\* ReadPipelineJSON has returned, having read the file after the call of
\* WritePipelineJSON and before its return.
ReadDuringWrite == rd # NoCall /\ rd.at \in {"open", "write", "close"}

\* C15: a ReadPipelineJSON that runs during a WritePipelineJSON returns the
\* whole record that was in the file before or the whole record being
\* written, never an error for an empty or cut file.
C15_NoTornRead ==
    ReadDuringWrite =>
        /\ ~rd.runData.err
        /\ rd.runData.steps \in {arg.old, arg.new}

\* C16: pipeline.json of the run directory is written by the Run or Resume of
\* the task only; stop reads it and never writes it.
C16_SingleWriter == wrote \subseteq {"run", "resume"}

\* C17: when Run or Resume returns the error of a step's execution,
\* pipeline.json holds that step as failed, whatever the outcome of the
\* writes.
C17_FailurePersisted ==
    [][\A p \in Procs :
          StepFails(p) => IsStatus(disk'.steps, idx[p], StatusFailed)]_vars

\* C18: when the context of Run is cancelled while the container of a step is
\* running, the container is killed and Run returns the error of that step
\* instead of going on to the next step or returning nil.
C18_CancelEndsRun ==
    [][(pc["run"] = "record" /\ pc'["run"] # "record" /\ cancelAt["run"] # 0) =>
         /\ result["run"] = "cancel"
         /\ pc'["run"] = "done"
         /\ ret'["run"].kind = "step"]_vars

\* runOneShotContainer returns to RunStep from its select.
SelectReturns(p) == pc[p] = "wait" /\ pc'[p] = "record"

\* C19: when the context is cancelled while the init process has not exited,
\* runOneShotContainer takes the cancellation branch (SIGKILL, wait for the
\* wait goroutine) and returns the cancellation error with the process
\* reaped.
C19_CancelKills ==
    [][\A p \in Procs :
          (SelectReturns(p) /\ cancelAt[p] # 0) =>
              /\ result'[p] = "cancel"
              /\ proc'[p] = "none"
              /\ idx[p] \in reaped'[p]]_vars

\* runOneShotContainer returns to RunStep, with a driver error or from its
\* select.
RunStepReturns(p) == pc[p] \in {"start", "wait"} /\ pc'[p] = "record"

\* C20: when runOneShotContainer returns after libcontainer.Create has
\* succeeded (the process spec rejected, the start failed, the process exited
\* with any code, the context cancelled), the container's state directory is
\* gone: Destroy has run.
C20_DestroyOnReturn ==
    [][\A p \in Procs :
          (RunStepReturns(p) /\ result'[p] # "driver") => ctr'[idx[p]] = "absent"]_vars

\* RunStep of Run has returned on the path where the container was created
\* and its process was rejected or could not be started, and the state
\* directory of the container is gone.
C20_Witness ==
    /\ pc["run"] = "record"
    /\ result["run"] = "start"
    /\ ctr[idx["run"]] = "absent"

\* Every call of runOneShotContainer in the process has returned.
AllReturned == \A c \in Callers : wd[c].pc = "done"

\* C21: when every call of runOneShotContainer has returned, the working
\* directory of the process is the one it had before the first call, also when
\* the calls overlap.
C21_CwdRestored == AllReturned => cwd = HostDir

SweepReturned == arg.fn = "Sweep" /\ val # NoCall

\* id is prefix followed by something, possibly nothing.
StartsWith(id, prefix) == \E n \in 0 .. Len(id) : SubSeq(id, 1, n) = prefix

\* The containers a sweep has signalled or called Destroy on.
Touched == val.term \cup val.kill \cup val.destroy

StopSweepReturned == arg.fn = "StopSweep" /\ val # NoCall

\* C24: the sweep that stop makes for a running step signals and destroys the
\* container of that step and no other container.
C24_SingleContainerSweep ==
    StopSweepReturned => Touched \subseteq {val.containerID}

ListReturned == arg.fn = "List" /\ val # NoCall

\* C25: a task whose record Run has written with a running step is a row of
\* `task list`, with its pipeline name, its task id and the container id of
\* the running step.
C25_RunningTaskListed ==
    ListReturned =>
        \E row \in val.rows :
           /\ row.pipelineName = arg.pipelineName
           /\ row.taskID = val.taskID
           /\ row.containerID = ContainerID(sanitizePipelineName(arg.pipelineName), <<"a">>, 1)

ExtractReturned == arg.fn = "extractTarStream" /\ val # NoCall

\* C26: extractTarStream fails when the name of an entry normalises outside
\* of the destination, and every location it makes or writes, with the
\* symbolic links of earlier entries resolved, is the destination directory
\* or lies under it.
C26_SafeExtraction ==
    ExtractReturned =>
        /\ (\E k \in DOMAIN arg.headers :
               LET clean == CleanRel(arg.headers[k].name, <<>>) IN
               clean # <<>> /\ clean[1] = "..") => val.err
        /\ \A c \in val.made : c # NoPath /\ Len(c) >= 1 /\ c[1] = "dest"

RenderReturned == arg.fn = "renderString" /\ val # NoCall

\* C27: renderString puts the node's value for every one of the five tokens
\* {{node_ip}}, {{node_port}}, {{node_username}}, {{node_password}} and
\* {{node_labels}}, and gives every other piece of the string (plain text and
\* unknown tokens) back as it was, whatever the pieces next to it.
C27_RenderFidelity ==
    RenderReturned =>
        /\ Len(val.out) = Len(arg.s)
        /\ \A i \in DOMAIN arg.s :
               val.out[i] =
                   CASE arg.s[i] = Tok("node_ip") -> Value(arg.node.IP)
                     [] arg.s[i] = Tok("node_port") -> Value(arg.node.Port)
                     [] arg.s[i] = Tok("node_username") -> Value(arg.node.Username)
                     [] arg.s[i] = Tok("node_password") -> Value(arg.node.Password)
                     [] arg.s[i] = Tok("node_labels") -> Value(labelsString(arg.node.Labels))
                     [] OTHER -> arg.s[i]

SanitizeReturned == arg.fn = "sanitizeImageName" /\ val # NoCall

\* The characters of [A-Za-z0-9._-] among the characters of the inputs.
InClass(s) == \A i \in DOMAIN s : s[i] \in {"a", "A", "1", ".", "_", "-"}
NoEdgePunct(s) == s = <<>> \/ (s[1] \notin {".", "_", "-"} /\ s[Len(s)] \notin {".", "_", "-"})

\* C28 as stated: sanitizeImageName is idempotent and its output matches
\* [A-Za-z0-9._-]+ (one character at least) with no leading or trailing
\* ".", "_" or "-".
C28_SanitizeNonEmpty ==
    SanitizeReturned =>
        /\ val.twice = val.once
        /\ val.once # <<>>
        /\ InClass(val.once)
        /\ NoEdgePunct(val.once)

\* C28: sanitizeImageName is idempotent and its output is empty or matches
\* [A-Za-z0-9._-]+ with no leading or trailing ".", "_" or "-".
C28_Sanitize ==
    SanitizeReturned =>
        /\ val.twice = val.once
        /\ InClass(val.once)
        /\ NoEdgePunct(val.once)

\* A call whose argument has a character outside of the class right before
\* its tag: the last character of the name was rewritten to "_" and trimmed.
C28_Witness ==
    /\ SanitizeReturned
    /\ arg.raw = <<"a", "#", ":">>
    /\ val.once = <<"a">>

NormalizeReturned == arg.fn = "normalizeArchiveToTar" /\ val # NoCall

\* The first two bytes of the file are the gzip magic.
GzipMagic == Len(arg.bytes) >= 2 /\ arg.bytes[1] = 31 /\ arg.bytes[2] = 139

\* C29: whatever the suffix of the name, a file of two bytes or more whose
\* first two bytes are not 0x1f 0x8b is returned as its original path, and a
\* file whose first two bytes are 0x1f 0x8b (a gzip stream that inflates, no
\* system call failing) is returned as a temporary tar that exists until the
\* cleanup is called and is gone after it.
C29_MagicOverSuffix ==
    NormalizeReturned =>
        /\ (Len(arg.bytes) >= 2 /\ ~GzipMagic /\ arg.fault = "none") =>
               (~val.ret.err /\ val.ret.path = arg.archivePath)
        /\ (GzipMagic /\ arg.inflates /\ arg.fault = "none") =>
               /\ ~val.ret.err
               /\ val.ret.path # arg.archivePath
               /\ val.at = "returned" => val.ret.path \in val.temps
               /\ val.at = "cleaned" => val.ret.path \notin val.temps

PruneReturned == arg.fn = "PruneImages" /\ val # NoCall

\* The names of the store entries: the layouts that are not hidden.
Catalog == {n \in DOMAIN arg.store : arg.store[n].kind = "layout" /\ n[1] # "."}
RefOf(n) == IF arg.store[n].ref = <<>> THEN n ELSE arg.store[n].ref

\* The entries that the referenced set names neither by name nor by ref.
ToPrune == {n \in Catalog : n \notin val.referenced /\ RefOf(n) \notin val.referenced}
Removed == {n \in DOMAIN arg.store : val.ret.store[n] # arg.store[n]}

\* C30: PruneImages that returns no error has deleted exactly the store
\* entries whose name is not in the referenced set and whose ref is not in
\* it, has kept every other entry as it was, and returns exactly the names it
\* removed, each once; one that returns an error has removed only such
\* entries and returns their names.
C30_Prune ==
    PruneReturned =>
        /\ Removed = {val.ret.pruned[i] : i \in DOMAIN val.ret.pruned}
        /\ Cardinality(Removed) = Len(val.ret.pruned)
        /\ \A n \in Removed : val.ret.store[n] = Absent
        /\ Removed \subseteq ToPrune
        /\ ~val.ret.err => Removed = ToPrune

\* A call that removed one entry and kept an entry whose name is not
\* referenced because its ref is.
C30_Witness ==
    /\ PruneReturned
    /\ ~val.ret.err
    /\ val.ret.pruned = <<<<"a">>>>
    /\ <<"r", "_", "a">> \in Catalog
    /\ <<"r", "_", "a">> \notin val.referenced
    /\ RefOf(<<"r", "_", "a">>) \in val.referenced

LoadCalled == arg.fn = "Load"

\* C31: Load writes images to the store only after the self-install
\* container has exited with code 0; when the container is not started,
\* exits with another code or is killed for the cancelled context, Load
\* returns an error and has written no image.
C31_IngestAfterExitZero ==
    LoadCalled =>
        /\ val.writes > 0 =>
               val.proc = "exited" /\ val.code = 0 /\ val.branch = "wait" /\ arg.fault = "none"
        /\ (/\ val.pc = "done"
            /\ \/ val.proc = "none"
               \/ val.code # 0
               \/ val.branch = "cancel") =>
               (val.ret = "error" /\ val.writes = 0 /\ val.store = arg.store)

\* Load has returned nil with two images written, after the exit of the
\* container with code 0.
C31_Witness ==
    /\ LoadCalled
    /\ val.pc = "done"
    /\ val.ret = "nil"
    /\ val.writes = 2
    /\ val.store # arg.store

\* C32: TopoOrder returns an error for every template with a cycle, with two
\* steps of one name or with a successor that no step has, and every step of
\* an order it returns is a step of the template.
C32_DefectsRejected ==
    TopoOrderReturned =>
        /\ ~ValidTemplate(arg.steps) => val.err
        /\ \A j \in DOMAIN val.order : \E k \in DOMAIN arg.steps : val.order[j] = arg.steps[k]

SweepContainerReturned == arg.fn = "SweepContainer" /\ val # NoCall

CallsOf(op) == {i \in DOMAIN val.calls : val.calls[i] = op}

\* C33: for a matched container, SIGTERM is sent only if the status is
\* running or created, SIGKILL only after a SIGTERM and a second status
\* query that gave running, a stopped container gets no signal, and Destroy
\* is called exactly once, as the last call, whatever the status queries and
\* the signals returned.
C33_SweepProtocol ==
    SweepContainerReturned =>
        /\ CallsOf("SIGTERM") # {} => arg.status \in {"running", "created"}
        /\ \A k \in CallsOf("SIGKILL") :
              /\ \E t \in CallsOf("SIGTERM") : \E s \in CallsOf("Status") : t < s /\ s < k
              /\ arg.statusAfter = "running"
              /\ ~arg.statusAfterErr
        /\ arg.status = "stopped" => CallsOf("SIGTERM") \cup CallsOf("SIGKILL") = {}
        /\ CallsOf("Destroy") = {Len(val.calls)}
        /\ Cardinality(CallsOf("SIGTERM")) <= 1
        /\ Cardinality(CallsOf("SIGKILL")) <= 1

\* A created container whose SIGTERM failed and that was found running at
\* the second query: it was killed and destroyed, Destroy failing.
C33_Witness ==
    /\ SweepContainerReturned
    /\ arg.status = "created"
    /\ arg.termErr
    /\ arg.destroyErr
    /\ val.calls = <<"Status", "SIGTERM", "Status", "SIGKILL", "Destroy">>

OpenReturned == arg.fn = "OpenImageFromStore" /\ val # NoCall

\* The store entries that match the argument by sanitized name, by ref and
\* by raw name.
BySanitized == {n \in Catalog : n = sanitizeImageName(arg.imageNameOrRef)}
ByRef == {n \in Catalog : RefOf(n) = arg.imageNameOrRef}
ByName == {n \in Catalog : n = arg.imageNameOrRef}

ProcessArgsReturned == arg.fn = "writeRuntimeSpecForRun" /\ val # NoCall

\* The step's entrypoint override, if it has one, followed by its args.
StepArgs ==
    (IF \E i \in DOMAIN arg.step.Entrypoint : arg.step.Entrypoint[i] # " "
     THEN <<arg.step.Entrypoint>>
     ELSE <<>>) \o arg.step.Args

\* C35: the process args are the step's entrypoint override (if any) followed
\* by the step's args; only when that list is empty are they the image
\* config's entrypoint followed by its command; an empty result is an error.
C35_ProcessArgs ==
    ProcessArgsReturned =>
        LET expected == IF StepArgs # <<>> THEN StepArgs
                        ELSE arg.cfg.Entrypoint \o arg.cfg.Cmd
        IN  IF expected = <<>> THEN val.err ELSE ~val.err /\ val.args = expected

\* C36: in pipeline.json, whatever Run, Resume and stop have done in whatever
\* interleaving, no step with status success or running follows a step that
\* is pending, failed or cancelled: the steps with status success are a
\* prefix of the list.
C36_SuccessPrefix ==
    \A i, j \in DOMAIN disk.steps :
        i < j =>
            /\ disk.steps[j].status = StatusSuccess => disk.steps[i].status = StatusSuccess
            /\ disk.steps[j].status = StatusRunning =>
                   disk.steps[i].status \notin {StatusPending, StatusFailed, StatusCancelled}

\* Run, Resume and stop have all written the record, and it holds the first
\* step as success and the second as running.
C36_Witness ==
    /\ IsRecord(disk)
    /\ wrote = {"run", "resume", "stop"}
    /\ disk.steps[1].status = StatusSuccess
    /\ disk.steps[2].status = StatusRunning

\* Run or Resume returns from its loop, after the write of a terminal status.
LoopReturns(p) == pc[p] = "record" /\ pc'[p] = "done"

\* C37: when Run or Resume returns from its loop and none of its writes has
\* failed, the record it has just written holds no step as running, and every
\* step up to the one it ran last is success or failed.
C37_NoRunningLeft ==
    [][\A p \in Procs :
          (LoopReturns(p) /\ p \notin wfail') =>
              /\ IsRecord(disk')
              /\ \A k \in DOMAIN disk'.steps : disk'.steps[k].status # StatusRunning
              /\ \A k \in 1 .. idx[p] :
                    disk'.steps[k].status \in {StatusSuccess, StatusFailed}]_vars

\* Resume has returned nil after the last step without a failed write, stop
\* having written the record as well: the file holds every step as success.
C37_Witness ==
    /\ pc["resume"] = "done"
    /\ ret["resume"] = OkRet
    /\ "resume" \in wrote
    /\ "resume" \notin wfail
    /\ "stop" \in wrote
    /\ AllSuccess(disk)

OpenedAfterWrites == arg.fn = "writeImageToStore" /\ val.opened # "none"

\* C38: after write(A, R1) and write(B, R2) with R1 # R2, open(R1) returns A.
C38_WriteFrame ==
    (OpenedAfterWrites /\ arg.R1 # arg.R2) => val.opened = "A"

\* The invocation marks a step running in the file.
MarksRunning(p) == pc[p] = "mark" /\ pc'[p] = "start"

\* libcontainer.Create succeeds for the step of the invocation.
CreatesContainer(p) == pc[p] = "start" /\ pc'[p] # "start" /\ result'[p] # "driver"

\* C39: once the context of Run or of Resume is cancelled, the invocation
\* marks no step running and creates no container, also when the context was
\* cancelled as the container of the current step exited with code 0.
C39_NothingAfterCancel ==
    [][\A p \in Procs : ctx[p] => ~MarksRunning(p) /\ ~CreatesContainer(p)]_vars

====
